---- MODULE Spec2Model ----
(***************************************************************************)
(* A model of the TIS-100 emulator core of tis-100-rs: the port fabric     *)
(* (src/src/io.rs), the nodes (src/src/node/exec.rs, stack.rs, test.rs)    *)
(* and the machines that drive them (src/src/machine.rs).                  *)
(***************************************************************************)
EXTENDS Integers, Sequences, FiniteSets, TLC

\* ------------------------------------------------------------------------
\* Bounds of the model
\* ------------------------------------------------------------------------

\* number of cycles (step, sync, commit) a run is followed for
MaxCycles == 8

\* number of write_console calls a sandbox run makes
MaxConsoleWrites == 1

\* number of values a run reads through the view of a node nobody steps
\* (read_console, the reader of the doc examples)
MaxPeerReads == 1

\* ------------------------------------------------------------------------
\* Program constants
\* ------------------------------------------------------------------------

NUM_NODES == 12
INPUT_0 == 12
OUTPUT_0 == 16
ClampMax == 999

\* ------------------------------------------------------------------------
\* Maps (VecMap, HashMap) and Option
\* ------------------------------------------------------------------------

EmptyMap == [x \in {} |-> 0]

\* insert: the entry for k is v, the others are those of m
Put(m, k, v) == (k :> v) @@ m

\* remove every key of ks
DelAll(m, ks) == [x \in (DOMAIN m) \ ks |-> m[x]] @@ EmptyMap

\* remove
Del(m, k) == DelAll(m, {k})

None == <<>>

Some(v) == <<v>>

IsSome(o) == o # <<>>

\* ------------------------------------------------------------------------
\* core: ports
\* ------------------------------------------------------------------------

Ports == {"UP", "DOWN", "LEFT", "RIGHT"}

opposite_port(port) ==
    CASE port = "UP" -> "DOWN"
      [] port = "DOWN" -> "UP"
      [] port = "LEFT" -> "RIGHT"
      [] port = "RIGHT" -> "LEFT"

\* ------------------------------------------------------------------------
\* io: the IoBus.  An io value is the bus (next_index, ports, writes,
\* write_blocks, nodes) together with the history the properties read:
\* wtag/ptag give, for a pending and for a committed value, the cycle in
\* which it was written, now is the current cycle, log lists the reads of
\* the handler that is running, movs what its MOV delivered, hits the
\* reads of the whole run that returned a value, and snap and prev the
\* machine as the last two cycles of a puzzle left it.
\* ------------------------------------------------------------------------

PortMap_new == [input |-> EmptyMap, output |-> EmptyMap]

IoBus_new ==
    [next_index |-> 0, ports |-> EmptyMap, writes |-> EmptyMap,
     write_blocks |-> EmptyMap, nodes |-> EmptyMap,
     wtag |-> EmptyMap, ptag |-> EmptyMap, now |-> 0, log |-> <<>>,
     movs |-> <<>>, hits |-> <<>>, snap |-> <<>>, prev |-> <<>>]

map_exists(io, node) == node \in DOMAIN io.nodes

insert_map(io, node) == [io EXCEPT !.nodes = Put(@, node, PortMap_new)]

connect_half(io, from, to, port) ==
    LET to_port == opposite_port(port)
        io1 == IF map_exists(io, from) THEN io ELSE insert_map(io, from)
        io2 == IF map_exists(io1, to) THEN io1 ELSE insert_map(io1, to)
        n1 == [io2.nodes EXCEPT
                 ![from].output = Put(@, port, <<io2.next_index, to>>)]
        n2 == [n1 EXCEPT
                 ![to].input = Put(@, to_port, <<io2.next_index, from>>)]
    IN [io2 EXCEPT !.nodes = n2, !.next_index = @ + 1]

connect_full(io, from, to, port) ==
    connect_half(connect_half(io, from, to, port), to, from, opposite_port(port))

get_input(io, node, port) ==
    IF node \in DOMAIN io.nodes /\ port \in DOMAIN io.nodes[node].input
    THEN Some(io.nodes[node].input[port])
    ELSE None

get_output(io, node, port) ==
    IF node \in DOMAIN io.nodes /\ port \in DOMAIN io.nodes[node].output
    THEN Some(io.nodes[node].output[port])
    ELSE None

is_connected(io, from, to, port) ==
    LET o == get_output(io, from, port)
        b == get_output(io, to, opposite_port(port))
    IN /\ IsSome(o)
       /\ to \in DOMAIN io.nodes
       /\ IsSome(b)
       /\ o[1][2] = to
       /\ b[1][2] = from

\* the edges leaving a node
OutEdges(io, node) ==
    IF node \in DOMAIN io.nodes
    THEN {io.nodes[node].output[p][1] : p \in DOMAIN io.nodes[node].output}
    ELSE {}

\* a commit that drops the pending writes
IoBus_commit_drop(io) ==
    [io EXCEPT !.writes = EmptyMap, !.wtag = EmptyMap, !.now = @ + 1]

\* a commit that forgets the values committed before
IoBus_commit_replace(io) ==
    [io EXCEPT
       !.ports = io.writes,
       !.ptag = io.wtag,
       !.writes = EmptyMap,
       !.wtag = EmptyMap,
       !.now = @ + 1]

\* a commit that also releases every write block
IoBus_commit_unblock(io) ==
    [io EXCEPT
       !.ports = io.writes @@ io.ports,
       !.ptag = io.wtag @@ io.ptag,
       !.writes = EmptyMap,
       !.wtag = EmptyMap,
       !.write_blocks = EmptyMap,
       !.now = @ + 1]

IoBus_commit(io) ==
    [io EXCEPT
       !.ports = io.writes @@ io.ports,
       !.ptag = io.wtag @@ io.ptag,
       !.writes = EmptyMap,
       !.wtag = EmptyMap,
       !.now = @ + 1]

\* a write that skips the pending writes: the value is committed at once
IoBus_write_through(io, node, port, value) ==
    LET c == get_output(io, node, port)
    IN IF IsSome(c)
       THEN [io EXCEPT !.ports = Put(@, c[1][1], value),
                       !.ptag = Put(@, c[1][1], io.now),
                       !.write_blocks = Put(@, node, value)]
       ELSE io

\* a write that blocks the writer whether or not the port has an edge
IoBus_write_blocks(io, node, port, value) ==
    LET c == get_output(io, node, port)
    IN IF IsSome(c)
       THEN [io EXCEPT !.writes = Put(@, c[1][1], value),
                       !.wtag = Put(@, c[1][1], io.now),
                       !.write_blocks = Put(@, node, value)]
       ELSE [io EXCEPT !.write_blocks = Put(@, node, value)]

IoBus_write(io, node, port, value) ==
    LET c == get_output(io, node, port)
    IN IF IsSome(c)
       THEN [io EXCEPT !.writes = Put(@, c[1][1], value),
                       !.wtag = Put(@, c[1][1], io.now),
                       !.write_blocks = Put(@, node, value)]
       ELSE io

is_blocked(io, node) == node \in DOMAIN io.write_blocks

\* a clear_outputs that leaves the committed slots of the node alone
clear_outputs_keep_ports(io, node) == [io EXCEPT !.write_blocks = Del(@, node)]

\* a clear_outputs that leaves the write block of the node alone
clear_outputs_keep_block(io, node) ==
    [io EXCEPT !.ports = DelAll(@, OutEdges(io, node))]

clear_outputs(io, node) ==
    LET to_clear == OutEdges(io, node)
    IN [io EXCEPT !.ports = DelAll(@, to_clear),
                  !.write_blocks = Del(@, node)]

\* a read attempt, as the log keeps it
ReadEvent(io, node, port, c, hit) ==
    [reader |-> node, port |-> port,
     edge |-> IF IsSome(c) THEN c[1][1] ELSE -1,
     peer |-> IF IsSome(c) THEN c[1][2] ELSE -1,
     hit |-> hit,
     pending |-> IsSome(c) /\ c[1][1] \in DOMAIN io.writes,
     blocked |-> IsSome(c) /\ c[1][2] \in DOMAIN io.write_blocks,
     val |-> IF hit THEN io.ports[c[1][1]] ELSE 0,
     written |-> IF hit THEN io.ptag[c[1][1]] ELSE -1,
     at |-> io.now]

\* a read through the connection c that finds a committed value
read_hit(io, node, port, c) ==
    [io |-> clear_outputs(
                [io EXCEPT !.ports = Del(@, c[1][1]),
                           !.log = Append(@, ReadEvent(io, node, port, c, TRUE)),
                           !.hits = Append(@, [reader |-> node, peer |-> c[1][2],
                                               val |-> io.ports[c[1][1]]])],
                c[1][2]),
     val |-> Some(io.ports[c[1][1]])]

\* a read that finds no connection, or no committed value
read_miss(io, node, port, c) ==
    [io |-> [io EXCEPT !.log = Append(@, ReadEvent(io, node, port, c, FALSE))],
     val |-> None]

\* a read through the optional connection c
read_through(io, node, port, c) ==
    IF IsSome(c) /\ c[1][1] \in DOMAIN io.ports
    THEN read_hit(io, node, port, c)
    ELSE read_miss(io, node, port, c)

\* the result of a read: the bus after it and the optional value
IoBus_read(io, node, port) == read_through(io, node, port, get_input(io, node, port))

\* ------------------------------------------------------------------------
\* core: instructions.  A source is VAL(v) or REG(r); a register is ACC,
\* NIL, a direction (IO(DIR(port))), ANY or LAST.
\* ------------------------------------------------------------------------

VAL(v) == [k |-> "VAL", v |-> v, r |-> "NIL"]
REG(r) == [k |-> "REG", v |-> 0, r |-> r]

Nop == [op |-> "Nop", src |-> VAL(0), dst |-> "NIL", t |-> 0]
Mov(src, dst) == [op |-> "Mov", src |-> src, dst |-> dst, t |-> 0]
Swp == [op |-> "Swp", src |-> VAL(0), dst |-> "NIL", t |-> 0]
Sav == [op |-> "Sav", src |-> VAL(0), dst |-> "NIL", t |-> 0]
Add(src) == [op |-> "Add", src |-> src, dst |-> "NIL", t |-> 0]
Sub(src) == [op |-> "Sub", src |-> src, dst |-> "NIL", t |-> 0]
Neg == [op |-> "Neg", src |-> VAL(0), dst |-> "NIL", t |-> 0]
Jmp(t) == [op |-> "Jmp", src |-> VAL(0), dst |-> "NIL", t |-> t]
Jez(t) == [op |-> "Jez", src |-> VAL(0), dst |-> "NIL", t |-> t]
Jnz(t) == [op |-> "Jnz", src |-> VAL(0), dst |-> "NIL", t |-> t]
Jgz(t) == [op |-> "Jgz", src |-> VAL(0), dst |-> "NIL", t |-> t]
Jlz(t) == [op |-> "Jlz", src |-> VAL(0), dst |-> "NIL", t |-> t]
Jro(src) == [op |-> "Jro", src |-> src, dst |-> "NIL", t |-> 0]

\* ------------------------------------------------------------------------
\* node/exec: BasicExecutionNode
\* ------------------------------------------------------------------------

BasicExecutionNode_new ==
    [program |-> <<>>, pc |-> 0, mode |-> "Idle", acc |-> 0, bak |-> 0,
     last |-> None]

with_program(program) == [BasicExecutionNode_new EXCEPT !.program = program]

\* an inc_pc that wraps only once pc is beyond the program's length
inc_pc_beyond(n) ==
    IF n.pc + 1 > Len(n.program) THEN [n EXCEPT !.pc = 0]
    ELSE [n EXCEPT !.pc = n.pc + 1]

inc_pc(n) ==
    IF n.pc + 1 >= Len(n.program) THEN [n EXCEPT !.pc = 0]
    ELSE [n EXCEPT !.pc = n.pc + 1]

set_pc(n, pc) ==
    IF pc < 0 THEN [n EXCEPT !.pc = 0]
    ELSE IF pc > Len(n.program) THEN [n EXCEPT !.pc = Len(n.program) - 1]
    ELSE [n EXCEPT !.pc = pc]

fetch(n) ==
    IF n.pc >= 0 /\ n.pc < Len(n.program) THEN Some(n.program[n.pc + 1])
    ELSE None

\* a clamp_value that limits nothing
clamp_value_unlimited(value) == value

clamp_value(value) ==
    IF value > ClampMax THEN ClampMax
    ELSE IF value < -ClampMax THEN -ClampMax
    ELSE value

\* r.or_else(|| io.read(port)), for the result r of an earlier read
or_else_read(r, id, port) ==
    IF IsSome(r.val) THEN r ELSE IoBus_read(r.io, id, port)

\* an ANY that tries the edges in the order UP, DOWN, LEFT, RIGHT
read_any_up_first(io, id) ==
    or_else_read(or_else_read(or_else_read(
        IoBus_read(io, id, "UP"), id, "DOWN"), id, "LEFT"), id, "RIGHT")

\* io.read(LEFT).or_else(RIGHT).or_else(UP).or_else(DOWN)
read_any(io, id) ==
    or_else_read(or_else_read(or_else_read(
        IoBus_read(io, id, "LEFT"), id, "RIGHT"), id, "UP"), id, "DOWN")

\* val.or_else(|| { self.mode = Read; None }), for the result r of the match
\* a failed read that leaves the node in mode Run
read_or_block_skip(n, r) == [n |-> n, io |-> r.io, val |-> r.val]

read_or_block(n, r) ==
    [n |-> IF IsSome(r.val) THEN n ELSE [n EXCEPT !.mode = "Read"],
     io |-> r.io, val |-> r.val]

\* a read whose LAST, with no port remembered, finds nothing and waits
BasicExecutionNode_read_last_waits(n, io, id, src) ==
    read_or_block(n,
        CASE src.k = "VAL" -> [io |-> io, val |-> Some(src.v)]
          [] src.r = "ACC" -> [io |-> io, val |-> Some(n.acc)]
          [] src.r = "NIL" -> [io |-> io, val |-> Some(0)]
          [] src.r \in Ports -> IoBus_read(io, id, src.r)
          [] src.r = "ANY" -> read_any(io, id)
          [] src.r = "LAST" ->
                IF IsSome(n.last) THEN IoBus_read(io, id, n.last[1])
                ELSE [io |-> io, val |-> None])

\* the node, the bus and the optional value after reading src
BasicExecutionNode_read(n, io, id, src) ==
    read_or_block(n,
        CASE src.k = "VAL" -> [io |-> io, val |-> Some(src.v)]
          [] src.r = "ACC" -> [io |-> io, val |-> Some(n.acc)]
          [] src.r = "NIL" -> [io |-> io, val |-> Some(0)]
          [] src.r \in Ports -> IoBus_read(io, id, src.r)
          [] src.r = "ANY" -> read_any(io, id)
          [] src.r = "LAST" ->
                IF IsSome(n.last) THEN IoBus_read(io, id, n.last[1])
                ELSE [io |-> io, val |-> Some(0)])

\* a write that stores a value meant for NIL in ACC
BasicExecutionNode_write_nil_acc(n, io, id, dst, value) ==
    [n |-> IF dst \in {"ACC", "NIL"} THEN [n EXCEPT !.acc = value]
           ELSE [n EXCEPT !.mode = "Wrte"],
     io |-> IF dst \in Ports THEN IoBus_write(io, id, dst, value) ELSE io]

\* a write whose LAST, with no port remembered, offers the value on every port
BasicExecutionNode_write_last_any(n, io, id, dst, value) ==
    [n |-> IF dst = "ACC" THEN [n EXCEPT !.acc = value]
           ELSE IF dst = "NIL" THEN n ELSE [n EXCEPT !.mode = "Wrte"],
     io |-> IF dst \in {"ACC", "NIL"} THEN io
            ELSE IF dst \in Ports THEN IoBus_write(io, id, dst, value)
            ELSE IoBus_write(IoBus_write(IoBus_write(IoBus_write(
                     io, id, "UP", value), id, "DOWN", value),
                     id, "LEFT", value), id, "RIGHT", value)]

\* the node and the bus after writing value to dst
BasicExecutionNode_write(n, io, id, dst, value) ==
    LET io1 == CASE dst = "ACC" -> io
                 [] dst = "NIL" -> io
                 [] dst \in Ports -> IoBus_write(io, id, dst, value)
                 [] dst = "ANY" ->
                       IoBus_write(IoBus_write(IoBus_write(IoBus_write(
                           io, id, "UP", value), id, "DOWN", value),
                           id, "LEFT", value), id, "RIGHT", value)
                 [] dst = "LAST" ->
                       IF IsSome(n.last) THEN IoBus_write(io, id, n.last[1], value)
                       ELSE io
        n1 == CASE dst = "ACC" -> [n EXCEPT !.acc = value]
                [] dst = "NIL" -> n
                [] OTHER -> [n EXCEPT !.mode = "Wrte"]
    IN [n |-> n1,
        io |-> [io1 EXCEPT !.movs = Append(@, [node |-> id, dst |-> dst,
                                                  value |-> value])]]

\* an eval whose Mov hands the value it read to its destination as it is
eval_source_unclamped(id, instruction, r) ==
    IF ~IsSome(r.val) THEN [n |-> r.n, io |-> r.io]
    ELSE CASE instruction.op = "Mov" ->
                 BasicExecutionNode_write(r.n, r.io, id, instruction.dst, r.val[1])
           [] instruction.op = "Add" ->
                 [n |-> [r.n EXCEPT !.acc = @ + r.val[1]], io |-> r.io]
           [] instruction.op = "Sub" ->
                 [n |-> [r.n EXCEPT !.acc = @ - r.val[1]], io |-> r.io]
           [] instruction.op = "Jro" ->
                 [n |-> set_pc(r.n, r.n.pc + r.val[1]), io |-> r.io]

\* an eval whose Add and Sub keep ACC within the limits
eval_source_clamped_sums(id, instruction, r) ==
    IF ~IsSome(r.val) THEN [n |-> r.n, io |-> r.io]
    ELSE CASE instruction.op = "Mov" ->
                 BasicExecutionNode_write(r.n, r.io, id, instruction.dst,
                                          clamp_value(r.val[1]))
           [] instruction.op = "Add" ->
                 [n |-> [r.n EXCEPT !.acc = clamp_value(@ + r.val[1])], io |-> r.io]
           [] instruction.op = "Sub" ->
                 [n |-> [r.n EXCEPT !.acc = clamp_value(@ - r.val[1])], io |-> r.io]
           [] instruction.op = "Jro" ->
                 [n |-> set_pc(r.n, r.n.pc + r.val[1]), io |-> r.io]

\* the instructions that read a source, given the result r of the read
eval_source(id, instruction, r) ==
    IF ~IsSome(r.val) THEN [n |-> r.n, io |-> r.io]
    ELSE CASE instruction.op = "Mov" ->
                 BasicExecutionNode_write(r.n, r.io, id, instruction.dst,
                                          clamp_value(r.val[1]))
           [] instruction.op = "Add" ->
                 [n |-> [r.n EXCEPT !.acc = @ + r.val[1]], io |-> r.io]
           [] instruction.op = "Sub" ->
                 [n |-> [r.n EXCEPT !.acc = @ - r.val[1]], io |-> r.io]
           [] instruction.op = "Jro" ->
                 [n |-> set_pc(r.n, r.n.pc + r.val[1]), io |-> r.io]

\* the jumps: to instruction.t when taken
eval_jump(n, io, instruction, taken) ==
    [n |-> IF taken THEN set_pc(n, instruction.t) ELSE n, io |-> io]

eval(n, io, id, instruction) ==
    CASE instruction.op = "Nop" -> [n |-> n, io |-> io]
      [] instruction.op \in {"Mov", "Add", "Sub", "Jro"} ->
            eval_source(id, instruction,
                        BasicExecutionNode_read(n, io, id, instruction.src))
      [] instruction.op = "Swp" ->
            [n |-> [n EXCEPT !.bak = n.acc, !.acc = n.bak], io |-> io]
      [] instruction.op = "Sav" -> [n |-> [n EXCEPT !.bak = n.acc], io |-> io]
      [] instruction.op = "Neg" -> [n |-> [n EXCEPT !.acc = -n.acc], io |-> io]
      [] instruction.op \in {"Jmp", "Jez", "Jnz", "Jgz", "Jlz"} ->
            eval_jump(n, io, instruction,
                      CASE instruction.op = "Jmp" -> TRUE
                        [] instruction.op = "Jez" -> n.acc = 0
                        [] instruction.op = "Jnz" -> n.acc # 0
                        [] instruction.op = "Jgz" -> n.acc > 0
                        [] instruction.op = "Jlz" -> n.acc < 0)

\* if self.mode == Run { self.inc_pc() }, for the result e of eval
inc_if_run(e) == [n |-> IF e.n.mode = "Run" THEN inc_pc(e.n) ELSE e.n, io |-> e.io]

\* a step that enters mode Run before it looks for an instruction
BasicExecutionNode_step_eager(n, io, id) ==
    IF n.mode # "Wrte"
    THEN IF IsSome(fetch(n))
         THEN inc_if_run(eval([n EXCEPT !.mode = "Run"], io, id, fetch(n)[1]))
         ELSE [n |-> [n EXCEPT !.mode = "Run"], io |-> io]
    ELSE [n |-> n, io |-> io]

\* a step that evaluates the instruction again while the node waits in Wrte
BasicExecutionNode_step_rewrites(n, io, id) ==
    IF IsSome(fetch(n))
    THEN inc_if_run(eval([n EXCEPT !.mode = "Run"], io, id, fetch(n)[1]))
    ELSE [n |-> n, io |-> io]

BasicExecutionNode_step(n, io, id) ==
    IF n.mode # "Wrte" /\ IsSome(fetch(n))
    THEN inc_if_run(eval([n EXCEPT !.mode = "Run"], io, id, fetch(n)[1]))
    ELSE [n |-> n, io |-> io]

\* a sync that leaves mode Wrte whether or not the value was read
BasicExecutionNode_sync_eager(n, io, id) ==
    IF n.mode = "Wrte" THEN inc_pc([n EXCEPT !.mode = "Run"]) ELSE n

BasicExecutionNode_sync(n, io, id) ==
    IF n.mode = "Wrte" /\ ~is_blocked(io, id)
    THEN inc_pc([n EXCEPT !.mode = "Run"])
    ELSE n

\* an is_stalled that only counts a node that runs no program
BasicExecutionNode_is_stalled_idle(n) == n.mode = "Idle"

BasicExecutionNode_is_stalled(n) == n.mode # "Run"

\* ------------------------------------------------------------------------
\* node/mod: the Node trait's defaults (DamagedExecutionNode keeps them all)
\* ------------------------------------------------------------------------

Node_is_stalled == TRUE

\* ------------------------------------------------------------------------
\* node/stack: StackMemoryNode
\* ------------------------------------------------------------------------

StackMemoryNode_new == [stack |-> <<>>, read_index |-> None, panicked |-> FALSE]

\* Vec::remove: the vector without the element at index (counted from 0)
Vec_remove(v, index) ==
    SubSeq(v, 1, index) \o SubSeq(v, index + 2, Len(v))

\* self.stack.push(val), for the result r of a read
push_if_some(n, r) ==
    [n |-> IF IsSome(r.val) THEN [n EXCEPT !.stack = Append(@, r.val[1])] ELSE n,
     io |-> r.io]

\* if let Some(val) = io.read(dir) { self.stack.push(val) }
stack_read_push(st, id, dir) == push_if_some(st.n, IoBus_read(st.io, id, dir))

\* a step that reserves the index one past the top of the stack
StackMemoryNode_step_past_top(n, io, id) ==
    stack_read_push(stack_read_push(stack_read_push(stack_read_push(
        IF Len(n.stack) > 0
        THEN [n |-> [n EXCEPT !.read_index = Some(Len(n.stack))],
              io |-> IoBus_write(IoBus_write(IoBus_write(IoBus_write(
                         io, id, "LEFT", n.stack[Len(n.stack)]),
                         id, "RIGHT", n.stack[Len(n.stack)]),
                         id, "UP", n.stack[Len(n.stack)]),
                         id, "DOWN", n.stack[Len(n.stack)])]
        ELSE [n |-> n, io |-> io],
        id, "LEFT"), id, "RIGHT"), id, "UP"), id, "DOWN")

StackMemoryNode_step(n, io, id) ==
    LET offered ==
            IF Len(n.stack) > 0
            THEN [n |-> [n EXCEPT !.read_index = Some(Len(n.stack) - 1)],
                  io |-> IoBus_write(IoBus_write(IoBus_write(IoBus_write(
                             io, id, "LEFT", n.stack[Len(n.stack)]),
                             id, "RIGHT", n.stack[Len(n.stack)]),
                             id, "UP", n.stack[Len(n.stack)]),
                             id, "DOWN", n.stack[Len(n.stack)])]
            ELSE [n |-> n, io |-> io]
    IN stack_read_push(stack_read_push(stack_read_push(stack_read_push(
           offered, id, "LEFT"), id, "RIGHT"), id, "UP"), id, "DOWN")

StackMemoryNode_sync(n, io, id) ==
    IF ~is_blocked(io, id) /\ IsSome(n.read_index)
    THEN IF n.read_index[1] < Len(n.stack)
         THEN [n EXCEPT !.stack = Vec_remove(@, n.read_index[1]),
                        !.read_index = None]
         ELSE [n EXCEPT !.panicked = TRUE]
    ELSE n

\* ------------------------------------------------------------------------
\* node/test: TestInputNode, TestOutputNode
\* ------------------------------------------------------------------------

TestInputNode_with_data(test_data) == [test_data |-> test_data, blocked |-> FALSE]

TestInputNode_step(n, io, id) ==
    IF ~n.blocked /\ Len(n.test_data) > 0
    THEN [n |-> [n EXCEPT !.blocked = TRUE],
          io |-> IoBus_write(io, id, "DOWN", n.test_data[1])]
    ELSE [n |-> n, io |-> io]

\* a sync that pops the head whether or not a peer has read it
TestInputNode_sync_unread(n, io, id) ==
    [n EXCEPT !.test_data = IF Len(@) > 0 THEN Tail(@) ELSE @,
              !.blocked = FALSE]

\* a sync that unblocks the node but keeps the value that was read
TestInputNode_sync_keeps(n, io, id) ==
    IF ~is_blocked(io, id) THEN [n EXCEPT !.blocked = FALSE] ELSE n

TestInputNode_sync(n, io, id) ==
    IF ~is_blocked(io, id)
    THEN [n EXCEPT !.test_data = IF Len(@) > 0 THEN Tail(@) ELSE @,
                   !.blocked = FALSE]
    ELSE n

TestOutputNode_with_data(test_data) == [test_data |-> test_data, results |-> <<>>]

\* a record that keeps a pair for a value read after the expected ones ran out
record_result_all(n, r) ==
    [n |-> IF IsSome(r.val)
           THEN [n EXCEPT !.test_data = IF Len(@) > 0 THEN Tail(@) ELSE @,
                          !.results = Append(@, <<IF Len(n.test_data) > 0
                                                  THEN n.test_data[1] ELSE 0,
                                                  r.val[1]>>)]
           ELSE n,
     io |-> r.io]

\* the node after the read of its step gave r
record_result(n, r) ==
    [n |-> IF IsSome(r.val) /\ Len(n.test_data) > 0
           THEN [n EXCEPT !.test_data = Tail(@),
                          !.results = Append(@, <<n.test_data[1], r.val[1]>>)]
           ELSE n,
     io |-> r.io]

TestOutputNode_step(n, io, id) == record_result(n, IoBus_read(io, id, "UP"))

\* a state that is Passed as soon as no expected value remains
TestOutputNode_state_lenient(n) ==
    IF Len(n.test_data) > 0 THEN "Testing" ELSE "Passed"

TestOutputNode_state(n) ==
    IF Len(n.test_data) > 0 THEN "Testing"
    ELSE IF \A i \in 1..Len(n.results) : n.results[i][1] = n.results[i][2]
         THEN "Passed"
         ELSE "Failed"

\* ------------------------------------------------------------------------
\* machine: Tis100, Sandbox, Puzzle
\* ------------------------------------------------------------------------

RECURSIVE connect_all(_, _, _)
\* a chain of connect_full (full = TRUE) or connect_half calls
connect_all(io, full, cs) ==
    IF cs = <<>> THEN io
    ELSE connect_all(IF full THEN connect_full(io, cs[1][1], cs[1][2], cs[1][3])
                     ELSE connect_half(io, cs[1][1], cs[1][2], cs[1][3]),
                     full, Tail(cs))

Tis100_setup(io) ==
    LET lr == connect_all(io, TRUE,
                  << <<0, 1, "RIGHT">>, <<1, 2, "RIGHT">>, <<2, 3, "RIGHT">>,
                     <<4, 5, "RIGHT">>, <<5, 6, "RIGHT">>, <<6, 7, "RIGHT">>,
                     <<8, 9, "RIGHT">>, <<9, 10, "RIGHT">>, <<10, 11, "RIGHT">> >>)
        ud == connect_all(lr, TRUE,
                  << <<0, 4, "DOWN">>, <<1, 5, "DOWN">>, <<2, 6, "DOWN">>,
                     <<3, 7, "DOWN">>, <<4, 8, "DOWN">>, <<5, 9, "DOWN">>,
                     <<6, 10, "DOWN">>, <<7, 11, "DOWN">> >>)
        inputs == connect_all(ud, FALSE,
                  << <<INPUT_0, 0, "DOWN">>, <<INPUT_0 + 1, 1, "DOWN">>,
                     <<INPUT_0 + 2, 2, "DOWN">>, <<INPUT_0 + 3, 3, "DOWN">> >>)
    IN connect_all(inputs, FALSE,
                  << <<8, OUTPUT_0, "DOWN">>, <<9, OUTPUT_0 + 1, "DOWN">>,
                     <<10, OUTPUT_0 + 2, "DOWN">>, <<11, OUTPUT_0 + 3, "DOWN">> >>)

\* the bus of Tis100::new
Tis100_new == Tis100_setup(IoBus_new)

ExecOf(save, index) ==
    [kind |-> "exec",
     n |-> IF index \in DOMAIN save THEN with_program(save[index])
           ELSE BasicExecutionNode_new]

\* Sandbox::setup: the nodes of a sandbox with the programs of save
Sandbox_setup(save) == [index \in 0..(NUM_NODES - 1) |-> ExecOf(save, index)]

\* Spec::setup: the nodes of a puzzle with the given layout, programs and streams
Spec_setup(layout, save, streams) ==
    LET inputs == {i \in 1..Len(streams) : streams[i].kind = "Input"}
        \* a later stream for the same node replaces an earlier one
        StreamOf(node) ==
            streams[CHOOSE i \in inputs :
                        /\ streams[i].node = node
                        /\ \A j \in inputs : streams[j].node = node => j <= i]
    IN [index \in (0..(Len(layout) - 1)) \cup {streams[i].node + INPUT_0 : i \in inputs} |->
          IF index < Len(layout)
          THEN CASE layout[index + 1] = "Compute" -> ExecOf(save, index)
                 [] layout[index + 1] = "Memory" ->
                       [kind |-> "stack", n |-> StackMemoryNode_new]
                 [] layout[index + 1] = "Damaged" ->
                       [kind |-> "damaged", n |-> <<>>]
          ELSE [kind |-> "input",
                n |-> TestInputNode_with_data(StreamOf(index - INPUT_0).data)]]

\* Spec::tests: the test output nodes of a puzzle
Spec_tests(streams) ==
    LET outputs == {i \in 1..Len(streams) : streams[i].kind = "Output"}
        StreamOf(node) ==
            streams[CHOOSE i \in outputs :
                        /\ streams[i].node = node
                        /\ \A j \in outputs : streams[j].node = node => j <= i]
    IN [node \in {streams[i].node : i \in outputs} |->
          TestOutputNode_with_data(StreamOf(node).data)]

\* ------------------------------------------------------------------------
\* Configurations: the machines and programs the runs start from
\* ------------------------------------------------------------------------

Prog(name) ==
    CASE name = "empty" -> <<>>
      [] name = "accumulate" ->
            <<Mov(REG("UP"), "ACC"), Add(VAL(1)), Mov(REG("ACC"), "DOWN")>>
      [] name = "clamp" -> <<Mov(VAL(1000), "DOWN")>>
      [] name = "clamp_low" -> <<Mov(VAL(-1000), "ACC"), Mov(REG("ACC"), "DOWN")>>
      [] name = "jro_loop" -> <<Mov(VAL(3), "ACC"), Jro(VAL(-1))>>
      [] name = "add_add" ->
            <<Add(VAL(999)), Add(VAL(999)), Mov(REG("ACC"), "DOWN"),
              Mov(REG("ACC"), "ACC")>>
      [] name = "sub_sub" ->
            <<Sub(VAL(999)), Sub(VAL(999)), Mov(REG("ACC"), "DOWN")>>
      [] name = "jmp_len" -> <<Nop, Jmp(2)>>
      [] name = "jmp_beyond" -> <<Nop, Nop, Jmp(5)>>
      [] name = "jmp_back" -> <<Add(VAL(1)), Nop, Jmp(0)>>
      [] name = "jro_far" -> <<Nop, Jro(VAL(7))>>
      [] name = "jro_neg" -> <<Nop, Nop, Jro(VAL(-7))>>
      [] name = "jro_len" -> <<Jro(VAL(2)), Nop>>
      [] name = "jro_up" -> <<Mov(REG("UP"), "ACC"), Jro(REG("ACC")), Nop>>
      [] name = "jez" -> <<Jez(2), Add(VAL(1)), Sub(VAL(2)), Jlz(1), Neg>>
      [] name = "jnz_jgz" -> <<Add(VAL(1)), Jnz(3), Nop, Jgz(0)>>
      [] name = "swp_sav" -> <<Mov(REG("UP"), "ACC"), Sav, Neg, Swp, Mov(REG("ACC"), "DOWN")>>
      [] name = "nil_nil" -> <<Mov(REG("NIL"), "NIL"), Add(VAL(1))>>
      [] name = "last_read" -> <<Mov(REG("LAST"), "ACC"), Add(VAL(1))>>
      [] name = "last_write" -> <<Mov(REG("UP"), "ACC"), Mov(REG("ACC"), "LAST"), Add(VAL(1))>>
      [] name = "no_edge" -> <<Mov(VAL(5), "LEFT"), Add(VAL(1))>>
      [] name = "any_any" -> <<Mov(REG("ANY"), "ANY")>>
      [] name = "add_up" -> <<Add(REG("UP")), Mov(REG("ACC"), "DOWN")>>
      [] name = "up_down" -> <<Mov(REG("UP"), "DOWN")>>
      [] name = "up_right" -> <<Mov(REG("UP"), "RIGHT")>>
      [] name = "left_down" -> <<Mov(REG("LEFT"), "DOWN")>>
      [] name = "down_acc" -> <<Mov(REG("DOWN"), "ACC")>>
      [] name = "up_acc" -> <<Mov(REG("UP"), "ACC")>>
      [] name = "left_acc" -> <<Mov(REG("LEFT"), "ACC")>>
      [] name = "right_acc" -> <<Mov(REG("RIGHT"), "ACC")>>
      [] name = "seven_any" -> <<Mov(VAL(7), "ANY")>>
      [] name = "spin" -> <<Nop>>
      [] name = "count" -> <<Add(VAL(1)), Mov(REG("ACC"), "DOWN")>>
      [] name = "any_acc" -> <<Mov(REG("ANY"), "ACC")>>
      [] name = "five_down" -> <<Mov(VAL(5), "DOWN")>>
      [] name = "sav_nil" ->
            <<Add(VAL(3)), Sav, Add(VAL(1)), Mov(REG("NIL"), "NIL")>>
      [] name = "emit_right" -> <<Mov(VAL(4), "RIGHT"), Mov(REG("LEFT"), "ACC")>>
      [] name = "emit_left" -> <<Mov(VAL(6), "LEFT"), Mov(REG("RIGHT"), "ACC")>>
      [] name = "emit_down" -> <<Mov(VAL(1), "DOWN"), Mov(REG("UP"), "ACC")>>
      [] name = "emit_up" -> <<Mov(VAL(9), "UP"), Mov(REG("DOWN"), "ACC")>>

HarnessPrograms ==
    {"empty", "accumulate", "clamp", "clamp_low", "jro_loop", "add_add", "sub_sub",
     "jmp_len", "jmp_beyond", "jmp_back", "jro_far", "jro_neg", "jro_len", "jro_up",
     "jez", "jnz_jgz", "swp_sav", "nil_nil", "sav_nil", "last_read", "last_write",
     "no_edge",
     "any_any", "add_up", "up_down"}

\* the values the doc example's writer puts on the node's UP edge
HarnessFeeds == {-1000, 1, 999, 1000}

AllCompute == [i \in 1..NUM_NODES |-> "Compute"]

\* programs by node (a Save) from a set of <<node, program name>> pairs
SaveOf(pairs) ==
    [index \in {pr[1] : pr \in pairs} |->
        Prog((CHOOSE pr \in pairs : pr[1] = index)[2])]

Stream(kind, node, data) == [kind |-> kind, node |-> node, data |-> data]

SandboxConfigs ==
    { [name |-> "passthrough", driver |-> "sandbox", console |-> {42},
       save |-> SaveOf({<<1, "up_down">>, <<5, "up_down">>, <<9, "up_right">>,
                        <<10, "left_down">>}),
       layout |-> AllCompute, streams |-> <<>>],
      [name |-> "console_clamp", driver |-> "sandbox", console |-> {1000, -1000},
       save |-> SaveOf({<<1, "up_down">>, <<5, "up_acc">>}),
       layout |-> AllCompute, streams |-> <<>>],
      [name |-> "broadcast", driver |-> "sandbox", console |-> {},
       save |-> SaveOf({<<5, "seven_any">>, <<1, "down_acc">>, <<4, "right_acc">>,
                        <<6, "left_acc">>, <<9, "up_acc">>}),
       layout |-> AllCompute, streams |-> <<>>],
      [name |-> "deadlock", driver |-> "sandbox", console |-> {},
       save |-> SaveOf({<<0, "right_acc">>, <<1, "left_acc">>}),
       layout |-> AllCompute, streams |-> <<>>],
      [name |-> "any_priority", driver |-> "sandbox", console |-> {},
       save |-> SaveOf({<<5, "any_acc">>, <<4, "emit_right">>, <<6, "emit_left">>,
                        <<1, "emit_down">>, <<9, "emit_up">>}),
       layout |-> AllCompute, streams |-> <<>>],
      [name |-> "idle", driver |-> "sandbox", console |-> {},
       save |-> SaveOf({}),
       layout |-> AllCompute, streams |-> <<>>],
      [name |-> "running", driver |-> "sandbox", console |-> {},
       save |-> SaveOf({<<0, "jmp_back">>, <<11, "count">>}),
       layout |-> AllCompute, streams |-> <<>>] }

PuzzleConfigs ==
    { [name |-> "chain", driver |-> "puzzle", console |-> {},
       save |-> SaveOf({<<1, "up_down">>, <<5, "up_down">>, <<9, "up_down">>,
                        <<3, "spin">>}),
       layout |-> [AllCompute EXCEPT ![3] = "Damaged"],
       streams |-> <<Stream("Input", 1, <<3, 4>>), Stream("Output", 1, <<3, 4>>)>>],
      [name |-> "chain_fail", driver |-> "puzzle", console |-> {},
       save |-> SaveOf({<<1, "accumulate">>, <<5, "up_down">>, <<9, "up_down">>,
                        <<3, "spin">>}),
       layout |-> AllCompute,
       streams |-> <<Stream("Input", 1, <<3, 999>>), Stream("Output", 1, <<4, 1000>>)>>],
      [name |-> "chain_stalled", driver |-> "puzzle", console |-> {},
       save |-> SaveOf({<<1, "up_down">>, <<5, "up_down">>, <<9, "up_down">>}),
       layout |-> AllCompute,
       streams |-> <<Stream("Input", 1, <<3, 4>>), Stream("Output", 1, <<3, 4>>)>>],
      [name |-> "stack_right", driver |-> "puzzle", console |-> {},
       save |-> SaveOf({<<0, "up_right">>, <<2, "left_down">>, <<6, "up_down">>,
                        <<10, "up_down">>, <<3, "spin">>}),
       layout |-> [AllCompute EXCEPT ![2] = "Memory"],
       streams |-> <<Stream("Input", 0, <<5, 6>>), Stream("Output", 2, <<5, 6>>)>>],
      [name |-> "stack_below", driver |-> "puzzle", console |-> {},
       save |-> SaveOf({<<0, "up_down">>, <<4, "up_right">>, <<1, "down_acc">>,
                        <<3, "spin">>}),
       layout |-> [AllCompute EXCEPT ![6] = "Memory", ![12] = "Damaged"],
       streams |-> <<Stream("Input", 0, <<8>>), Stream("Output", 3, <<1>>)>>],
      [name |-> "two_outputs", driver |-> "puzzle", console |-> {},
       save |-> SaveOf({<<0, "up_down">>, <<4, "up_down">>, <<8, "up_down">>,
                        <<1, "five_down">>, <<5, "up_down">>, <<9, "up_down">>,
                        <<3, "spin">>}),
       layout |-> AllCompute,
       streams |-> <<Stream("Input", 0, <<1, 2>>), Stream("Output", 0, <<1, 2>>),
                     Stream("Output", 1, <<7>>)>>],
      [name |-> "spin_forever", driver |-> "puzzle", console |-> {},
       save |-> SaveOf({<<3, "spin">>}),
       layout |-> AllCompute,
       streams |-> <<Stream("Output", 0, <<1>>)>>],
      [name |-> "fanout", driver |-> "puzzle", console |-> {},
       save |-> SaveOf({<<1, "up_down">>, <<5, "any_any">>, <<4, "right_acc">>,
                        <<6, "left_acc">>, <<9, "up_down">>, <<3, "spin">>}),
       layout |-> AllCompute,
       streams |-> <<Stream("Input", 1, <<2, 3>>), Stream("Output", 1, <<2, 3>>)>>],
      [name |-> "contend", driver |-> "puzzle", console |-> {},
       save |-> SaveOf({<<9, "seven_any">>, <<5, "down_acc">>, <<3, "spin">>}),
       layout |-> AllCompute,
       streams |-> <<Stream("Output", 1, <<7>>)>>] }

HarnessConfigs ==
    { [name |-> p, driver |-> "harness", console |-> {},
       save |-> SaveOf({<<1, p>>}), layout |-> <<>>, streams |-> <<>>] :
      p \in HarnessPrograms }

Configs == SandboxConfigs \cup PuzzleConfigs \cup HarnessConfigs

\* ------------------------------------------------------------------------
\* State
\* ------------------------------------------------------------------------

VARIABLES
    cfg,        \* the name of the configuration the run started from
    driver,     \* "sandbox", "puzzle" or "harness" (the doc example of exec.rs)
    bus,        \* the IoBus (Tis100.bus) with its history
    nodes,      \* Tis100.nodes: id -> [kind, n]
    tests,      \* Puzzle.tests: id -> TestOutputNode
    stalled,    \* Tis100.stalled
    cycles,     \* Puzzle.cycles; the number of cycles completed
    at,         \* the position of the driver in the cycle's schedule
    cyclog,     \* history: the reads the handlers of the current cycle made,
                \* and the reads from outside that returned a value
    ports0,     \* history: the committed slots as the last commit left them
    stallhist,  \* history: for each cycle, whether all nodes were stalled
    ins,        \* history: the values written from outside, with their cycle
    outs        \* history: the values read from outside, with their cycle

vars == <<cfg, driver, bus, nodes, tests, stalled, cycles, at, cyclog, ports0,
          stallhist, ins, outs>>

\* the ids of a set, highest first
RECURSIVE Descending(_)
Descending(S) ==
    IF S = {} THEN <<>>
    ELSE LET m == CHOOSE x \in S : \A y \in S : x >= y
         IN <<m>> \o Descending(S \ {m})

\* the ids of a set in ascending order (VecMap iteration order)
RECURSIVE Ascending(_)
Ascending(S) ==
    IF S = {} THEN <<>>
    ELSE LET m == CHOOSE x \in S : \A y \in S : x <= y
         IN <<m>> \o Ascending(S \ {m})

Phase(ph, ids) == [i \in 1..Len(ids) |-> [ph |-> ph, id |-> ids[i]]]

\* the handlers of one cycle, in the order the driver calls them
Schedule ==
    LET ids == Ascending(DOMAIN nodes)
        tids == Ascending(DOMAIN tests)
    IN CASE driver = "harness" ->
              Phase("step", ids) \o Phase("sync", ids) \o Phase("commit", <<0>>)
         [] driver = "sandbox" ->
              Phase("step", ids) \o Phase("sync", ids) \o Phase("stall", <<0>>)
                  \o Phase("commit", <<0>>)
         [] driver = "puzzle" ->
              Phase("tstep", tids) \o Phase("step", ids) \o Phase("tsync", tids)
                  \o Phase("sync", ids) \o Phase("stall", <<0>>)
                  \o Phase("commit", <<0>>)

Cur == Schedule[at]

Tis100_is_deadlocked == stalled > 1

\* a state that looks for a Failed node before it looks for a Testing one
Puzzle_state_failed_first ==
    LET states == {TestOutputNode_state(tests[i]) : i \in DOMAIN tests}
    IN IF "Failed" \in states THEN "Failed"
       ELSE IF "Testing" \in states THEN "Testing"
       ELSE "Passed"

Puzzle_state ==
    LET states == {TestOutputNode_state(tests[i]) : i \in DOMAIN tests}
    IN IF "Testing" \in states THEN "Testing"
       ELSE IF "Failed" \in states THEN "Failed"
       ELSE "Passed"

\* the driver's loop goes on: the puzzle binary stops on a verdict or a deadlock
CanStart ==
    /\ cycles < MaxCycles
    /\ (driver = "puzzle" /\ cycles > 0)
           => (Puzzle_state = "Testing" /\ ~Tis100_is_deadlocked)

AtBoundary == at = 1

Running(ph) == (at > 1 \/ CanStart) /\ Cur.ph = ph

Advance == at' = IF at = Len(Schedule) THEN 1 ELSE at + 1

\* the bus as a handler finds it: the logs of the previous handler dropped
Begin(io) == [io EXCEPT !.log = <<>>, !.movs = <<>>]

HarnessBus(v) ==
    LET io == connect_half(connect_half(IoBus_new, 0, 1, "DOWN"), 1, 2, "DOWN")
    IN Begin(IoBus_commit(IoBus_write(io, 0, "DOWN", v)))

Init ==
    \E c \in Configs :
        /\ cfg = c.name
        /\ driver = c.driver
        /\ \/ /\ c.driver = "sandbox"
              /\ bus = Tis100_new
              /\ nodes = Sandbox_setup(c.save)
              /\ tests = EmptyMap
              /\ ins = <<>>
           \/ /\ c.driver = "puzzle"
              /\ bus = Tis100_new
              /\ nodes = Spec_setup(c.layout, c.save, c.streams)
              /\ tests = Spec_tests(c.streams)
              /\ ins = <<>>
           \/ /\ c.driver = "harness"
              /\ \E v \in HarnessFeeds :
                    /\ bus = HarnessBus(v)
                    /\ ins = <<[cycle |-> 0, value |-> v]>>
              /\ nodes = [index \in {1} |-> ExecOf(c.save, index)]
              /\ tests = EmptyMap
        /\ stalled = 0
        /\ cycles = 0
        /\ at = 1
        /\ cyclog = <<>>
        /\ ports0 = bus.ports
        /\ stallhist = <<>>
        /\ outs = <<>>

\* ------------------------------------------------------------------------
\* Actions: one per handler the driver calls
\* ------------------------------------------------------------------------

\* what every handler leaves alone
Frame == UNCHANGED <<cfg, driver, stalled, cycles, ports0, stallhist, ins, outs>>

\* the node id and the bus after its step gave r
NodeStepped(id, r) ==
    /\ nodes' = [nodes EXCEPT ![id].n = r.n]
    /\ bus' = r.io
    /\ cyclog' = cyclog \o r.io.log

\* the test node id and the bus after its step gave r
TestStepped(id, r) ==
    /\ tests' = [tests EXCEPT ![id] = r.n]
    /\ bus' = r.io
    /\ cyclog' = cyclog \o r.io.log

\* the bus after a read from outside gave r; the history keeps the values
OutsideRead(r) ==
    /\ bus' = r.io
    /\ cyclog' = IF IsSome(r.val) THEN cyclog \o r.io.log ELSE cyclog
    /\ outs' = IF IsSome(r.val)
               THEN Append(outs, [cycle |-> cycles, value |-> r.val[1]])
               ELSE outs

\* Tis100::step, for a BasicExecutionNode
ExecStep ==
    /\ Running("step")
    /\ nodes[Cur.id].kind = "exec"
    /\ NodeStepped(Cur.id, BasicExecutionNode_step(nodes[Cur.id].n, Begin(bus), Cur.id))
    /\ Advance
    /\ UNCHANGED tests
    /\ Frame

\* Tis100::step, for a StackMemoryNode
StackStep ==
    /\ Running("step")
    /\ nodes[Cur.id].kind = "stack"
    /\ NodeStepped(Cur.id, StackMemoryNode_step(nodes[Cur.id].n, Begin(bus), Cur.id))
    /\ Advance
    /\ UNCHANGED tests
    /\ Frame

\* Tis100::step, for a DamagedExecutionNode (Node::step's default)
DamagedStep ==
    /\ Running("step")
    /\ nodes[Cur.id].kind = "damaged"
    /\ bus' = Begin(bus)
    /\ Advance
    /\ UNCHANGED <<nodes, tests, cyclog>>
    /\ Frame

\* Tis100::step, for a TestInputNode
TestInputStep ==
    /\ Running("step")
    /\ nodes[Cur.id].kind = "input"
    /\ NodeStepped(Cur.id, TestInputNode_step(nodes[Cur.id].n, Begin(bus), Cur.id))
    /\ Advance
    /\ UNCHANGED tests
    /\ Frame

\* Puzzle::step, first loop: a TestOutputNode steps through view(id + OUTPUT_0)
TestOutputStep ==
    /\ Running("tstep")
    /\ TestStepped(Cur.id, TestOutputNode_step(tests[Cur.id], Begin(bus),
                                               Cur.id + OUTPUT_0))
    /\ Advance
    /\ UNCHANGED nodes
    /\ Frame

\* Puzzle::step, second loop: a TestOutputNode's sync (Node::sync's default)
TestOutputSync ==
    /\ Running("tsync")
    /\ bus' = Begin(bus)
    /\ Advance
    /\ UNCHANGED <<nodes, tests, cyclog>>
    /\ Frame

\* Tis100::sync, for a BasicExecutionNode
ExecSync ==
    /\ Running("sync")
    /\ nodes[Cur.id].kind = "exec"
    /\ nodes' = [nodes EXCEPT
                   ![Cur.id].n = BasicExecutionNode_sync(@, bus, Cur.id)]
    /\ bus' = Begin(bus)
    /\ Advance
    /\ UNCHANGED <<tests, cyclog>>
    /\ Frame

\* Tis100::sync, for a StackMemoryNode
StackSync ==
    /\ Running("sync")
    /\ nodes[Cur.id].kind = "stack"
    /\ nodes' = [nodes EXCEPT
                   ![Cur.id].n = StackMemoryNode_sync(@, bus, Cur.id)]
    /\ bus' = Begin(bus)
    /\ Advance
    /\ UNCHANGED <<tests, cyclog>>
    /\ Frame

\* Tis100::sync, for a DamagedExecutionNode (Node::sync's default)
DamagedSync ==
    /\ Running("sync")
    /\ nodes[Cur.id].kind = "damaged"
    /\ bus' = Begin(bus)
    /\ Advance
    /\ UNCHANGED <<nodes, tests, cyclog>>
    /\ Frame

\* Tis100::sync, for a TestInputNode
TestInputSync ==
    /\ Running("sync")
    /\ nodes[Cur.id].kind = "input"
    /\ nodes' = [nodes EXCEPT
                   ![Cur.id].n = TestInputNode_sync(@, bus, Cur.id)]
    /\ bus' = Begin(bus)
    /\ Advance
    /\ UNCHANGED <<tests, cyclog>>
    /\ Frame

Node_stalled(node) ==
    IF node.kind = "exec" THEN BasicExecutionNode_is_stalled(node.n)
    ELSE Node_is_stalled

AllStalled == \A id \in DOMAIN nodes : Node_stalled(nodes[id])

\* a deadlock check that never resets the counter
Tis100_sync_stalled_no_reset(count, all) == IF all THEN count + 1 ELSE count

\* the counter after the deadlock check that ends Tis100::sync
Tis100_sync_stalled(count, all) == IF all THEN count + 1 ELSE 0

StallCheck ==
    /\ Running("stall")
    /\ stalled' = Tis100_sync_stalled(stalled, AllStalled)
    /\ stallhist' = Append(stallhist, AllStalled)
    /\ bus' = Begin(bus)
    /\ Advance
    /\ UNCHANGED <<cfg, driver, nodes, tests, cycles, cyclog, ports0, ins, outs>>

\* the bus io of a puzzle, remembering the machine as this cycle leaves it
Remember(io) ==
    IF driver = "puzzle"
    THEN [io EXCEPT !.prev = io.snap,
                    !.snap = <<[nodes |-> nodes, tests |-> tests,
                                stalled |-> stalled, ports |-> io.ports,
                                write_blocks |-> io.write_blocks]>>]
    ELSE io

\* Tis100::commit, which ends the cycle
Commit ==
    /\ Running("commit")
    /\ bus' = Remember(IoBus_commit(Begin(bus)))
    /\ ports0' = bus'.ports
    /\ cycles' = cycles + 1
    /\ cyclog' = <<>>
    /\ Advance
    /\ UNCHANGED <<cfg, driver, nodes, tests, stalled, stallhist, ins, outs>>

Config == CHOOSE c \in Configs : c.name = cfg

\* Tis100::write_input(input, value)
write_input(io, input, value) == IoBus_write(io, input + INPUT_0, "DOWN", value)

\* a read_output that counts the outputs from the first input node
read_output_from_inputs(io, output) == IoBus_read(io, output + INPUT_0, "UP")

\* Tis100::read_output(output)
read_output(io, output) == IoBus_read(io, output + OUTPUT_0, "UP")

\* Sandbox::write_console, between two cycles
WriteConsole ==
    /\ driver = "sandbox"
    /\ AtBoundary
    /\ Len(ins) < MaxConsoleWrites
    /\ \E v \in Config.console :
          /\ bus' = write_input(Begin(bus), 1, v)
          /\ ins' = Append(ins, [cycle |-> cycles, value |-> v])
    /\ UNCHANGED <<cfg, driver, nodes, tests, stalled, cycles, at, cyclog, ports0,
                   stallhist, outs>>

\* Sandbox::read_console, between two cycles
ReadConsole ==
    /\ driver = "sandbox"
    /\ AtBoundary
    /\ Len(outs) < MaxPeerReads
    /\ OutsideRead(read_output(Begin(bus), 2))
    /\ UNCHANGED <<cfg, driver, nodes, tests, stalled, cycles, at, ports0,
                   stallhist, ins>>

\* the doc example of exec.rs: bus.view(2).read(UP), between two cycles
HarnessRead ==
    /\ driver = "harness"
    /\ AtBoundary
    /\ Len(outs) < MaxPeerReads
    /\ OutsideRead(IoBus_read(Begin(bus), 2, "UP"))
    /\ UNCHANGED <<cfg, driver, nodes, tests, stalled, cycles, at, ports0,
                   stallhist, ins>>

Next ==
    \/ ExecStep
    \/ StackStep
    \/ DamagedStep
    \/ TestInputStep
    \/ TestOutputStep
    \/ TestOutputSync
    \/ ExecSync
    \/ StackSync
    \/ DamagedSync
    \/ TestInputSync
    \/ StallCheck
    \/ Commit
    \/ WriteConsole
    \/ ReadConsole
    \/ HarnessRead

Spec == Init /\ [][Next]_vars

\* ------------------------------------------------------------------------
\* Properties
\* ------------------------------------------------------------------------

\* the reads of the current cycle that returned a value
Hits == {i \in 1..Len(cyclog) : cyclog[i].hit}

\* C1: a value written during a cycle is returned by no read of that cycle:
\* every read that returns a value returns one written in an earlier cycle,
\* and a committed slot only holds values written before the last commit.
C1_NoReadOfSameCycleWrite ==
    /\ \A i \in Hits : cyclog[i].written < cyclog[i].at
    /\ \A e \in DOMAIN bus.ports : bus.ptag[e] < bus.now
    /\ \A e \in DOMAIN bus.writes : bus.wtag[e] = bus.now

\* a reader found nothing on an edge its peer had written earlier in the
\* same cycle, and a read of a value of an earlier cycle succeeded
C1_Witness ==
    /\ \E i \in 1..Len(cyclog) :
          /\ ~cyclog[i].hit
          /\ cyclog[i].pending
          /\ cyclog[i].edge \in DOMAIN bus.writes
          /\ bus.wtag[cyclog[i].edge] = cyclog[i].at
    /\ \E i \in Hits : cyclog[i].written < cyclog[i].at

\* the reads of the current cycle on the edges that leave node p
ReadsFrom(p) == {i \in 1..Len(cyclog) : cyclog[i].peer = p}

\* the edges leaving node p that held a committed value when the cycle began
Offered(p) == OutEdges(bus, p) \cap DOMAIN ports0

\* C2: what a writer offers is consumed by at most one reader per cycle: of
\* the reads of one cycle on the edges of one writer at most one returns a
\* value, the value committed on its edge; and as soon as a reader has tried
\* an edge that held a committed value, exactly one read has returned it.
C2_BroadcastReadOnce ==
    \A p \in DOMAIN bus.nodes :
        /\ Cardinality(ReadsFrom(p) \cap Hits) <= 1
        /\ \A i \in ReadsFrom(p) \cap Hits :
              /\ cyclog[i].edge \in Offered(p)
              /\ cyclog[i].val = ports0[cyclog[i].edge]
        /\ (\E i \in ReadsFrom(p) : cyclog[i].edge \in Offered(p))
              => Cardinality(ReadsFrom(p) \cap Hits) = 1

\* a writer offered one value on several edges, several neighbours tried to
\* read it in the same cycle, one got it and another got nothing
C2_Witness ==
    \E p \in DOMAIN bus.nodes :
        /\ Cardinality(Offered(p)) >= 2
        /\ \E i, j \in ReadsFrom(p) :
              /\ cyclog[i].edge \in Offered(p)
              /\ cyclog[j].edge \in Offered(p)
              /\ cyclog[i].reader # cyclog[j].reader
              /\ cyclog[i].hit
              /\ ~cyclog[j].hit

\* C3: after a read that returned a value written by peer p, no edge leaving
\* p holds a committed value and p has no write block.
C3_ReadClearsPeer ==
    \A i \in 1..Len(bus.log) :
        bus.log[i].hit =>
            /\ OutEdges(bus, bus.log[i].peer) \cap DOMAIN bus.ports = {}
            /\ ~is_blocked(bus, bus.log[i].peer)

\* a read has just returned a value of a peer that was write-blocked and had
\* offered it on several edges
C3_Witness ==
    \E i \in 1..Len(bus.log) :
        /\ bus.log[i].hit
        /\ Cardinality(Offered(bus.log[i].peer)) >= 2
        /\ bus.log[i].blocked
        /\ ~is_blocked(bus, bus.log[i].peer)

\* C4: a node that has a write block has an outbound edge that is populated,
\* in the pending writes or in the committed slots; once the commit has
\* emptied the pending writes, in the committed slots.
C4_BlockedHasPopulatedEdge ==
    \A n \in DOMAIN bus.write_blocks :
        OutEdges(bus, n) \cap (DOMAIN bus.writes \cup DOMAIN bus.ports) # {}

\* a commit has just moved the write of a blocked node to the committed slots
C4_Witness ==
    /\ AtBoundary
    /\ cycles > 0
    /\ bus.writes = EmptyMap
    /\ \E n \in DOMAIN bus.write_blocks : OutEdges(bus, n) \cap DOMAIN bus.ports # {}

\* C5: a node has a write block exactly when a write of it is unconsumed: a
\* node with a committed value on an outbound edge has a write block, and a
\* node with no value pending or committed on any outbound edge has none.
C5_BlockIffUnconsumed ==
    \A n \in DOMAIN bus.nodes :
        /\ OutEdges(bus, n) \cap DOMAIN bus.ports # {} => is_blocked(bus, n)
        /\ OutEdges(bus, n) \cap (DOMAIN bus.writes \cup DOMAIN bus.ports) = {}
              => ~is_blocked(bus, n)

\* a stack node's value is committed on its edges and it has no write block
C5_Witness ==
    \E n \in DOMAIN nodes :
        /\ nodes[n].kind = "stack"
        /\ OutEdges(bus, n) \cap DOMAIN bus.ports # {}
        /\ ~is_blocked(bus, n)

\* C6: in the sandbox with node 1 = MOV UP DOWN, node 5 = MOV UP DOWN, node 9
\* = MOV UP RIGHT, node 10 = MOV LEFT DOWN, once write_console(42) has been
\* followed by 5 calls of step, read_console returns Some(42); and every
\* value read_console returned was 42, read after at least 5 steps.
C6_PassthroughAfterFiveSteps ==
    cfg = "passthrough" =>
        /\ (/\ AtBoundary
            /\ Len(ins) >= 1
            /\ ins[1].value = 42
            /\ cycles >= ins[1].cycle + 5
            /\ outs = <<>>)
              => read_output(bus, 2).val = Some(42)
        /\ \A i \in 1..Len(outs) :
              /\ outs[i].value = 42
              /\ Len(ins) >= 1
              /\ outs[i].cycle >= ins[1].cycle + 5

\* write_console(42), 5 calls of step, and read_console has returned 42
C6_Witness ==
    /\ cfg = "passthrough"
    /\ ins = <<[cycle |-> 0, value |-> 42]>>
    /\ outs = <<[cycle |-> 5, value |-> 42]>>

\* the edge leaving node 1 downwards, in the doc example of exec.rs
DownEdge == get_output(bus, 1, "DOWN")[1][1]

\* what [MOV UP ACC, ADD 1, MOV ACC DOWN] delivers for the value v
Accumulated(v) ==
    LET acc == IF v > ClampMax THEN ClampMax
               ELSE IF v < -ClampMax THEN -ClampMax ELSE v
    IN IF acc + 1 > ClampMax THEN ClampMax ELSE acc + 1

\* C7: an execution node running [MOV UP ACC, ADD 1, MOV ACC DOWN] whose UP
\* edge carries a committed value v has, after the third commit and until
\* the node below reads it, the value v + 1 limited to [-999, 999] on its
\* DOWN edge (v + 1 itself for -999 <= v <= 998; v = 1 gives 2), and that
\* is what the node below reads.
C7_Accumulate ==
    cfg = "accumulate" =>
        /\ (cycles >= 3 /\ outs = <<>>) =>
              /\ DownEdge \in DOMAIN bus.ports
              /\ bus.ports[DownEdge] = Accumulated(ins[1].value)
              /\ (-ClampMax <= ins[1].value /\ ins[1].value < ClampMax)
                    => bus.ports[DownEdge] = ins[1].value + 1
        /\ \A i \in 1..Len(outs) :
              /\ outs[i].value = Accumulated(ins[1].value)
              /\ outs[i].cycle >= 3

\* fed 1, the node has 2 on its DOWN edge after the third commit
C7_Witness ==
    /\ cfg = "accumulate"
    /\ ins[1].value = 1
    /\ cycles = 3
    /\ AtBoundary
    /\ DownEdge \in DOMAIN bus.ports
    /\ bus.ports[DownEdge] = 2

\* C7 as stated: for every v in [-999, 999] the DOWN edge carries v + 1
\* after the third commit.
C7_AccumulateAsStated ==
    (/\ cfg = "accumulate"
     /\ cycles >= 3
     /\ outs = <<>>
     /\ -ClampMax <= ins[1].value
     /\ ins[1].value <= ClampMax)
        => /\ DownEdge \in DOMAIN bus.ports
           /\ bus.ports[DownEdge] = ins[1].value + 1

\* the ids of the execution nodes
ExecNodes == {id \in DOMAIN nodes : nodes[id].kind = "exec"}

\* C8: every value MOV delivers lies in [-999, 999]: the value it hands to
\* its destination, ACC after a MOV to ACC, and every value pending or
\* committed on an edge leaving an execution node; MOV 1000 DOWN puts 999 on
\* the node's DOWN edge.
C8_MovClamps ==
    /\ \A i \in 1..Len(bus.movs) :
          /\ -999 <= bus.movs[i].value
          /\ bus.movs[i].value <= 999
          /\ bus.movs[i].dst = "ACC" =>
                nodes[bus.movs[i].node].n.acc = bus.movs[i].value
    /\ \A id \in ExecNodes :
          /\ \A e \in OutEdges(bus, id) \cap DOMAIN bus.writes :
                -999 <= bus.writes[e] /\ bus.writes[e] <= 999
          /\ \A e \in OutEdges(bus, id) \cap DOMAIN bus.ports :
                -999 <= bus.ports[e] /\ bus.ports[e] <= 999
    /\ (cfg = "clamp" /\ cycles >= 1 /\ outs = <<>>) =>
          /\ DownEdge \in DOMAIN bus.ports
          /\ bus.ports[DownEdge] = 999

\* MOV 1000 DOWN has just put 999 in the pending writes of the DOWN edge
C8_Witness ==
    /\ cfg = "clamp"
    /\ bus.movs = <<[node |-> 1, dst |-> "DOWN", value |-> 999]>>
    /\ DownEdge \in DOMAIN bus.writes
    /\ bus.writes[DownEdge] = 999

\* C9: after every step and every sync of an execution node its pc is at
\* least 0 and at most max(program length - 1, 0).
C9_PcInRange ==
    \A id \in ExecNodes :
        /\ 0 <= nodes[id].n.pc
        /\ nodes[id].n.pc <= IF Len(nodes[id].n.program) > 0
                              THEN Len(nodes[id].n.program) - 1
                              ELSE 0

\* the steps of an execution node have run a jump to its program's length,
\* a jump beyond it or a JRO below 0, and its pc is back at 0
C9_Witness ==
    /\ cfg \in {"jmp_len", "jmp_beyond", "jro_neg"}
    /\ cycles = Len(nodes[1].n.program)
    /\ nodes[1].n.mode = "Run"
    /\ nodes[1].n.pc = 0

\* the last two entries of the stall history are both TRUE
TwoStalledCycles ==
    /\ Len(stallhist) >= 2
    /\ stallhist[Len(stallhist)]
    /\ stallhist[Len(stallhist) - 1]

\* C10: is_deadlocked holds exactly when the stall counter exceeds 1, that
\* is exactly when each of the last two cycles ended with every node
\* stalled; a cycle that ends with a node in mode Run leaves the counter 0.
C10_DeadlockedIffTwoStalledCycles ==
    /\ Tis100_is_deadlocked <=> stalled > 1
    /\ Tis100_is_deadlocked <=> TwoStalledCycles
    /\ (Len(stallhist) >= 1 /\ ~stallhist[Len(stallhist)]) => stalled = 0
    /\ (Cur.ph = "commit" /\ driver # "harness") =>
          (stallhist[Len(stallhist)]
              <=> \A id \in ExecNodes : nodes[id].n.mode # "Run")

\* a run had a cycle with a node in mode Run, then two cycles with every node
\* stalled, and is deadlocked
C10_Witness ==
    /\ Tis100_is_deadlocked
    /\ \E i \in 1..Len(stallhist) : ~stallhist[i]
    /\ Len(stallhist) >= 3
    /\ ~stallhist[Len(stallhist) - 2]

\* is_deadlocked was true at the end of cycle i
ReportedDeadlock(i) ==
    /\ 2 <= i
    /\ i <= Len(stallhist)
    /\ stallhist[i - 1]
    /\ stallhist[i]

\* the reads of the current cycle by which a node of the machine got a value
NodeHits == {k \in Hits : cyclog[k].reader \in DOMAIN nodes}

\* the execution node r waits in mode Read for the port its edge e arrives on
WaitsFor(r, e) ==
    /\ nodes[r].n.mode = "Read"
    /\ IsSome(fetch(nodes[r].n))
    /\ fetch(nodes[r].n)[1].src.k = "REG"
    /\ \E port \in Ports :
          /\ fetch(nodes[r].n)[1].src.r \in {port, "ANY"}
          /\ get_input(bus, r, port) # None
          /\ get_input(bus, r, port)[1][1] = e

\* a value is on its way to an execution node that waits for it
ValueInFlight ==
    \E r \in ExecNodes :
        \E e \in DOMAIN bus.ports \cup DOMAIN bus.writes : WaitsFor(r, e)

\* C11: a deadlock is reported only when the machine can make no progress:
\* once is_deadlocked was true at the end of a cycle, every later cycle ends
\* with every node stalled, no node reads a value and no execution node is
\* in mode Run; and while a value is on its way to an execution node that
\* waits for it, is_deadlocked is false.
C11_DeadlockedMeansNoProgress ==
    /\ \A i \in 2..Len(stallhist) :
          ReportedDeadlock(i) =>
              /\ \A j \in (i + 1)..Len(stallhist) : stallhist[j]
              /\ cycles >= i => NodeHits = {}
              /\ cycles >= i => \A r \in ExecNodes : nodes[r].n.mode # "Run"
    /\ ValueInFlight => ~Tis100_is_deadlocked

\* is_deadlocked was true at the end of an earlier cycle and an execution
\* node has just read a value
C11_Witness ==
    /\ \E i \in 2..Len(stallhist) : ReportedDeadlock(i) /\ cycles >= i
    /\ \E k \in 1..Len(bus.log) :
          bus.log[k].hit /\ bus.log[k].reader \in ExecNodes

\* C12: with node 0 = MOV RIGHT ACC, node 1 = MOV LEFT ACC, the other nodes
\* idle and nothing written, is_deadlocked is true once 3 cycles have ended
\* (the second already reports it) and in every later cycle, both nodes
\* waiting in mode Read with pc 0.
C12_RealDeadlockDetected ==
    cfg = "deadlock" =>
        /\ Len(stallhist) >= 2 => Tis100_is_deadlocked
        /\ Len(stallhist) >= 1 =>
              /\ stallhist[Len(stallhist)]
              /\ stalled = Len(stallhist)
        /\ cycles >= 1 =>
              \A id \in {0, 1} : nodes[id].n.mode = "Read" /\ nodes[id].n.pc = 0
        /\ Hits = {}

\* three cycles have ended with both nodes waiting, and the deadlock is reported
C12_Witness ==
    /\ cfg = "deadlock"
    /\ cycles = 3
    /\ Tis100_is_deadlocked
    /\ nodes[0].n.mode = "Read"
    /\ nodes[1].n.mode = "Read"

\* the reads of the step just taken that returned a value to an execution node
StepHits == {k \in 1..Len(bus.log) : bus.log[k].hit /\ bus.log[k].reader \in ExecNodes}

\* C13: after an execution node's read through a direction register or ANY
\* has returned a value, the node's LAST names the port the value came from.
C13_LastNamesPortRead ==
    \A k \in StepHits : nodes[bus.log[k].reader].n.last = Some(bus.log[k].port)

\* an execution node has just read a value through ANY
C13_Witness ==
    \E k \in StepHits :
        /\ fetch(with_program(nodes[bus.log[k].reader].n.program))[1].src = REG("ANY")
        /\ bus.log[k].port = "LEFT"

\* the nodes that run the program [MOV LAST ACC, ADD 1]
LastReaders == {id \in ExecNodes : nodes[id].n.program = Prog("last_read")}

\* C14: a node that reads LAST before any of its port reads has returned a
\* value gets 0 without waiting: it stays in mode Run with its pc advanced,
\* ACC is 0 after MOV LAST ACC (it was 1 before, from the second cycle on),
\* the node reads no edge, the value on its UP edge stays, and LAST stays
\* unset.
C14_LastUnsetReadsZero ==
    \A id \in LastReaders :
        /\ nodes[id].n.last = None
        /\ nodes[id].n.mode \in {"Idle", "Run"}
        /\ nodes[id].n.mode = "Idle" => nodes[id].n.pc = 0 /\ nodes[id].n.acc = 0
        /\ nodes[id].n.mode = "Run" =>
              \/ nodes[id].n.pc = 1 /\ nodes[id].n.acc = 0
              \/ nodes[id].n.pc = 0 /\ nodes[id].n.acc = 1
        /\ \A k \in 1..Len(cyclog) : cyclog[k].reader # id
        /\ \A k \in 1..Len(bus.log) : bus.log[k].reader # id
        /\ get_input(bus, id, "UP")[1][1] \in DOMAIN bus.ports

\* the node has run MOV LAST ACC a second time, with ACC 1 before it
C14_Witness ==
    \E id \in LastReaders :
        /\ cycles >= 2
        /\ Cur.ph = "sync"
        /\ nodes[id].n.mode = "Run"
        /\ nodes[id].n.pc = 1
        /\ nodes[id].n.acc = 0

\* the order in which a read of ANY tries the edges
AnyOrder == <<"LEFT", "RIGHT", "UP", "DOWN">>

\* the execution nodes all of whose instructions read ANY
AnyReaders ==
    {id \in ExecNodes :
        /\ nodes[id].n.program # <<>>
        /\ \A k \in 1..Len(nodes[id].n.program) :
              nodes[id].n.program[k].src = REG("ANY")}

\* the input edges of node id that held a committed value when the cycle began
Populated(id) ==
    {port \in Ports :
        /\ get_input(bus, id, port) # None
        /\ get_input(bus, id, port)[1][1] \in DOMAIN ports0}

\* C15: when an execution node reads ANY, the value it gets is the one on the
\* first edge, in the order LEFT, RIGHT, UP, DOWN, that held a committed
\* value; the values on its other input edges stay in place and the nodes
\* that wrote them stay blocked.
C15_AnyReadsFirstPopulated ==
    \A id \in AnyReaders : \A k \in 1..Len(cyclog) :
        (cyclog[k].reader = id /\ cyclog[k].hit) =>
            /\ \E i \in 1..4 :
                  /\ AnyOrder[i] = cyclog[k].port
                  /\ AnyOrder[i] \in Populated(id)
                  /\ \A j \in 1..(i - 1) : AnyOrder[j] \notin Populated(id)
            /\ cyclog[k].val = ports0[cyclog[k].edge]
            /\ \A port \in Populated(id) \ {cyclog[k].port} :
                  /\ get_input(bus, id, port)[1][1] \in DOMAIN bus.ports
                  /\ bus.ports[get_input(bus, id, port)[1][1]]
                        = ports0[get_input(bus, id, port)[1][1]]
                  /\ is_blocked(bus, get_input(bus, id, port)[1][2])

\* a read of ANY has returned the value of the RIGHT edge while UP and DOWN
\* hold values too
C15_Witness ==
    \E id \in AnyReaders : \E k \in 1..Len(cyclog) :
        /\ cyclog[k].reader = id
        /\ cyclog[k].hit
        /\ cyclog[k].port = "RIGHT"
        /\ Populated(id) = {"RIGHT", "UP", "DOWN"}
        /\ nodes[id].n.acc = 6

\* the condition on ACC under which the jump instruction is taken
JumpTaken(n, instruction) ==
    CASE instruction.op = "Jmp" -> TRUE
      [] instruction.op = "Jez" -> n.acc = 0
      [] instruction.op = "Jnz" -> n.acc # 0
      [] instruction.op = "Jgz" -> n.acc > 0
      [] instruction.op = "Jlz" -> n.acc < 0

\* the step about to be taken is node id executing a JMP or a conditional
\* jump whose target is an index of its program
StepsJump(id) ==
    /\ Cur.ph = "step"
    /\ Cur.id = id
    /\ nodes[id].n.mode # "Wrte"
    /\ IsSome(fetch(nodes[id].n))
    /\ fetch(nodes[id].n)[1].op \in {"Jmp", "Jez", "Jnz", "Jgz", "Jlz"}
    /\ 0 <= fetch(nodes[id].n)[1].t
    /\ fetch(nodes[id].n)[1].t < Len(nodes[id].n.program)

\* C16: a step that executes JMP t, or a conditional jump to t whose
\* condition on ACC holds, leaves pc = t when t is an index of the program;
\* a conditional jump whose condition fails advances pc by one.
C16_JumpSetsPcToTarget ==
    [][\A id \in ExecNodes :
          (StepsJump(id) /\ at' # at) =>
              nodes'[id].n.pc =
                  IF JumpTaken(nodes[id].n, fetch(nodes[id].n)[1])
                  THEN fetch(nodes[id].n)[1].t
                  ELSE (nodes[id].n.pc + 1) % Len(nodes[id].n.program)]_vars

\* the node running [ADD 1, NOP, JMP 0] has executed its JMP 0 and continues
\* at index 1, so that ADD 1 has run only once after six cycles
C16_Witness ==
    \E id \in ExecNodes :
        /\ nodes[id].n.program = Prog("jmp_back")
        /\ cycles = 6
        /\ nodes[id].n.acc = 1

\* the nodes that run the program [MOV 3 ACC, JRO -1]
JroLoopers == {id \in ExecNodes : nodes[id].n.program = Prog("jro_loop")}

\* C17: a node that runs [MOV 3 ACC, JRO -1] has pc = 0 and ACC = 3 once two
\* cycles of step and sync have ended.
C17_JroLoopBackToStart ==
    \A id \in JroLoopers :
        (cycles = 2 /\ at = 1) => nodes[id].n.pc = 0 /\ nodes[id].n.acc = 3

\* two cycles have ended: MOV 3 ACC and JRO -1 have run, and ACC is 3
C17_Witness ==
    \E id \in JroLoopers :
        /\ cycles = 2
        /\ at = 1
        /\ nodes[id].n.mode = "Run"
        /\ nodes[id].n.acc = 3

\* the nodes that run [ADD 999, ADD 999, MOV ACC DOWN, MOV ACC ACC]
Adders == {id \in ExecNodes : nodes[id].n.program = Prog("add_add")}

\* the nodes that run [SUB 999, SUB 999, MOV ACC DOWN]
Subtractors == {id \in ExecNodes : nodes[id].n.program = Prog("sub_sub")}

\* C18: ADD and SUB do not clamp ACC.  From ACC = 0, ADD 999 twice leaves
\* ACC = 1998 (SUB 999 twice leaves -1998, and every further pair 1998
\* less), writing ACC to a port leaves it so, and only MOV ACC ACC brings it
\* back to 999, after which the two ADDs give 1998 and 2997.
C18_AddSubDoNotClamp ==
    /\ \A id \in Adders :
          /\ nodes[id].n.mode = "Idle" => nodes[id].n.acc = 0
          /\ (nodes[id].n.mode # "Idle" /\ nodes[id].n.pc = 0) => nodes[id].n.acc = 999
          /\ nodes[id].n.pc = 1 => nodes[id].n.acc \in {999, 1998}
          /\ nodes[id].n.pc \in {2, 3} => nodes[id].n.acc \in {1998, 2997}
    /\ \A id \in Subtractors :
          /\ nodes[id].n.mode = "Idle" => nodes[id].n.acc = 0
          /\ (nodes[id].n.mode # "Idle" /\ nodes[id].n.pc \in {0, 2}) =>
                nodes[id].n.acc \in {-1998 * k : k \in 1..(cycles + 1)}
          /\ nodes[id].n.pc = 1 =>
                nodes[id].n.acc \in {-1998 * k - 999 : k \in 0..cycles}

\* after MOV ACC ACC has brought 1998 back to 999, the two ADDs have run
\* again and ACC is 2997
C18_Witness ==
    \E id \in Adders :
        /\ nodes[id].n.pc = 2
        /\ nodes[id].n.acc = 2997
        /\ \E k \in 1..Len(outs) : outs[k].value = 999

StackNodes == {id \in DOMAIN nodes : nodes[id].kind = "stack"}

\* the reads of the run by which stack node s got a value, which it pushed
Pushed(s) == {k \in 1..Len(bus.hits) : bus.hits[k].reader = s}

\* the reads of the run by which a peer got a value from stack node s
Handed(s) == {k \in 1..Len(bus.hits) : bus.hits[k].peer = s}

\* C19: a stack node hands each pushed value to a reader at most once: it
\* never hands out more values than were pushed, and once the syncs of a
\* cycle are done the stack holds the pushed values less the ones read.
C19_StackHandsValueOnce ==
    \A s \in StackNodes :
        /\ Cardinality(Handed(s)) <= Cardinality(Pushed(s))
        /\ AtBoundary =>
              Len(nodes[s].n.stack) = Cardinality(Pushed(s)) - Cardinality(Handed(s))

\* a peer has read a value from a stack node and the cycle has ended
C19_Witness ==
    \E s \in StackNodes :
        /\ Handed(s) # {}
        /\ AtBoundary
        /\ \E k \in Handed(s) : bus.hits[k].reader > s

\* the reads of the run that stack node s took part in, in order: a read by
\* s is a push of its value, a read from s hands its value to a peer
StackEvents(s) ==
    LET involves(e) == e.reader = s \/ e.peer = s
    IN SelectSeq(bus.hits, involves)

\* the events ev of stack node s, as far as they are pushes followed by
\* reads, hand the pushed values back newest first
PushesThenReadsAreLifo(ev, s) ==
    \A j \in 1..Len(ev) : \A m \in 1..j :
        (/\ j + m <= Len(ev)
         /\ \A k \in 1..j : ev[k].reader = s
         /\ \A k \in (j + 1)..(j + m) : ev[k].peer = s)
            => ev[j + m].val = ev[j - m + 1].val

\* C20: a stack node is last-in first-out: every value it reads from a
\* neighbour is on its stack, in the order read, until a peer reads from it;
\* and when values v1..vn were pushed and are then read back with no push in
\* between, the readers get vn, ..., v1 in that order.
C20_StackIsLifo ==
    \A s \in StackNodes :
        /\ Handed(s) = {} =>
              nodes[s].n.stack = [k \in 1..Len(StackEvents(s)) |-> StackEvents(s)[k].val]
        /\ PushesThenReadsAreLifo(StackEvents(s), s)

\* two values were pushed, and then a peer has read from the stack node
C20_Witness ==
    \E s \in StackNodes :
        /\ Len(StackEvents(s)) >= 3
        /\ StackEvents(s)[1].reader = s
        /\ StackEvents(s)[2].reader = s
        /\ StackEvents(s)[3].peer = s
        /\ StackEvents(s)[1].val # StackEvents(s)[2].val

InputNodes == {id \in DOMAIN nodes : nodes[id].kind = "input"}

\* the stream a test input node was built with
StreamData(t) == Spec_setup(Config.layout, Config.save, Config.streams)[t].n.test_data

\* the values peers have read from node t so far, in order
Delivered(t) ==
    LET from_t(e) == e.peer = t
        got == SelectSeq(bus.hits, from_t)
    IN [k \in 1..Len(got) |-> got[k].val]

\* the stream data of input node t, of which taken has been read, is offered
\* on edge e one value at a time and in order
InputInOrder(t, data, taken, e) ==
    /\ Len(taken) <= Len(data)
    /\ taken = SubSeq(data, 1, Len(taken))
    /\ e \in DOMAIN bus.writes =>
          /\ Len(taken) < Len(data)
          /\ bus.writes[e] = data[Len(taken) + 1]
    /\ e \in DOMAIN bus.ports =>
          /\ Len(taken) < Len(data)
          /\ bus.ports[e] = data[Len(taken) + 1]
    /\ (e \in DOMAIN bus.writes \/ e \in DOMAIN bus.ports) => nodes[t].n.blocked
    /\ \/ nodes[t].n.test_data = SubSeq(data, Len(taken) + 1, Len(data))
       \/ /\ nodes[t].n.blocked
          /\ Len(taken) > 0
          /\ nodes[t].n.test_data = SubSeq(data, Len(taken), Len(data))
    /\ Len(taken) = Len(data) =>
          /\ e \notin DOMAIN bus.writes
          /\ e \notin DOMAIN bus.ports

\* C21: a test input node delivers its stream in order and each value once:
\* what peers have read from it is a prefix of the stream, the value on its
\* DOWN edge is always the first one not yet read, the head is popped only
\* after it was read, and once the whole stream has been read nothing is
\* written on the edge again.
C21_InputStreamInOrderOnce ==
    \A t \in InputNodes :
        InputInOrder(t, StreamData(t), Delivered(t), get_output(bus, t, "DOWN")[1][1])

\* a stream of two values has been read completely and the node has synced
C21_Witness ==
    \E t \in InputNodes :
        /\ Len(StreamData(t)) = 2
        /\ Delivered(t) = StreamData(t)
        /\ nodes[t].n.test_data = <<>>
        /\ ~nodes[t].n.blocked
        /\ AtBoundary

\* the values test output node o has read from UP so far, in order
OutputReads(o) ==
    LET by_o(e) == e.reader = o + OUTPUT_0
        got == SelectSeq(bus.hits, by_o)
    IN [k \in 1..Len(got) |-> got[k].val]

\* test output node o, built with the expected values data, has read the
\* values taken: it holds one pair per value read while expected ones
\* remained, and its state follows from the pairs
OutputRecords(o, data, taken) ==
    /\ Len(tests[o].results) = IF Len(taken) < Len(data) THEN Len(taken) ELSE Len(data)
    /\ \A k \in 1..Len(tests[o].results) : tests[o].results[k] = <<data[k], taken[k]>>
    /\ tests[o].test_data = SubSeq(data, Len(tests[o].results) + 1, Len(data))
    /\ TestOutputNode_state(tests[o]) =
          IF Len(taken) < Len(data) THEN "Testing"
          ELSE IF \A k \in 1..Len(data) : data[k] = taken[k] THEN "Passed"
          ELSE "Failed"

\* C22: a test output node pops one expected value for each value it reads
\* from UP and records the pair (expected, actual); it is Testing while
\* expected values remain, and after that Passed if all recorded pairs are
\* equal and Failed if not.
C22_OutputRecordsPairs ==
    \A o \in DOMAIN tests :
        OutputRecords(o, Spec_tests(Config.streams)[o].test_data, OutputReads(o))

\* one test output node has Failed on an unequal pair and another has
\* Passed on two equal pairs
C22_Witness ==
    \E o, p \in DOMAIN tests :
        /\ TestOutputNode_state(tests[o]) = "Failed"
        /\ tests[o].results = <<<<7, 5>>>>
        /\ TestOutputNode_state(tests[p]) = "Passed"
        /\ Len(tests[p].results) = 2

\* C23: the puzzle's state is Testing if any of its test output nodes is
\* Testing; otherwise Failed if any of them is Failed; otherwise Passed.
C23_PuzzleStateFromTests ==
    /\ (\E o \in DOMAIN tests : TestOutputNode_state(tests[o]) = "Testing")
          => Puzzle_state = "Testing"
    /\ (/\ \A o \in DOMAIN tests : TestOutputNode_state(tests[o]) # "Testing"
        /\ \E o \in DOMAIN tests : TestOutputNode_state(tests[o]) = "Failed")
          => Puzzle_state = "Failed"
    /\ (\A o \in DOMAIN tests : TestOutputNode_state(tests[o]) = "Passed")
          => Puzzle_state = "Passed"

\* one test output node has Failed while another is still Testing
C23_Witness ==
    \E o, p \in DOMAIN tests :
        /\ TestOutputNode_state(tests[o]) = "Failed"
        /\ TestOutputNode_state(tests[p]) = "Testing"
        /\ Len(tests[p].results) = 1
        /\ Puzzle_state = "Testing"

\* C24: every puzzle run ends: the driver loop comes to see a state other
\* than Testing or a reported deadlock.  So the loop never goes on from a
\* cycle that left the machine exactly as the cycle before had left it
\* (every later cycle would be the same again, and the loop would not end).
C24_PuzzleRunEnds ==
    ~(/\ driver = "puzzle"
      /\ AtBoundary
      /\ cycles >= 2
      /\ Puzzle_state = "Testing"
      /\ ~Tis100_is_deadlocked
      /\ bus.snap = bus.prev)

\* a puzzle whose input value has travelled through the nodes repeats its
\* cycle, still Testing and with no deadlock reported
C24_Witness ==
    /\ driver = "puzzle"
    /\ AtBoundary
    /\ bus.hits # <<>>
    /\ Puzzle_state = "Testing"
    /\ stalled = 0
    /\ bus.snap = bus.prev

\* C25: is_stalled is false only for an execution node whose mode is Run: it
\* is true for an execution node in Idle, Read or Write and for every stack,
\* damaged and test node; so a cycle ends with all nodes stalled exactly when
\* no execution node is in mode Run.
C25_StalledUnlessRunning ==
    /\ \A id \in DOMAIN nodes :
          Node_stalled(nodes[id]) =
              ~(nodes[id].kind = "exec" /\ nodes[id].n.mode = "Run")
    /\ \A o \in DOMAIN tests : Node_is_stalled
    /\ (Len(stallhist) >= 1 /\ Cur.ph = "commit") =>
          stallhist[Len(stallhist)] =
              (\A id \in ExecNodes : nodes[id].n.mode \in {"Idle", "Read", "Wrte"})

\* the deadlock check has just run over execution nodes in all four modes,
\* a stack node, a damaged node and a test input node
C25_Witness ==
    /\ Cur.ph = "commit"
    /\ {nodes[id].n.mode : id \in ExecNodes} = {"Idle", "Run", "Read", "Wrte"}
    /\ {nodes[id].kind : id \in DOMAIN nodes} = {"exec", "stack", "damaged", "input"}
    /\ ~stallhist[Len(stallhist)]

\* the step about to be taken is node id executing MOV NIL NIL
StepsMovNilNil(id) ==
    /\ Cur.ph = "step"
    /\ Cur.id = id
    /\ nodes[id].n.mode # "Wrte"
    /\ IsSome(fetch(nodes[id].n))
    /\ fetch(nodes[id].n)[1] = Mov(REG("NIL"), "NIL")

\* C26: MOV NIL NIL is a no-op: a step that executes it leaves ACC, BAK, LAST
\* and the committed slots, pending writes and write blocks of the bus as
\* they were, leaves the node in mode Run and advances pc once.
C26_MovNilNilIsNoOp ==
    [][\A id \in ExecNodes :
          (StepsMovNilNil(id) /\ at' # at) =>
              /\ nodes'[id].n.acc = nodes[id].n.acc
              /\ nodes'[id].n.bak = nodes[id].n.bak
              /\ nodes'[id].n.last = nodes[id].n.last
              /\ nodes'[id].n.mode = "Run"
              /\ nodes'[id].n.pc = (nodes[id].n.pc + 1) % Len(nodes[id].n.program)
              /\ bus'.ports = bus.ports
              /\ bus'.writes = bus.writes
              /\ bus'.write_blocks = bus.write_blocks
              /\ bus'.log = <<>>]_vars

\* MOV NIL NIL has run with ACC = 4 and BAK = 3 and a value on the UP edge
C26_Witness ==
    \E id \in ExecNodes :
        /\ nodes[id].n.program = Prog("sav_nil")
        /\ Cur.ph = "sync"
        /\ nodes[id].n.pc = 0
        /\ nodes[id].n.acc = 4
        /\ nodes[id].n.bak = 3
        /\ nodes[id].n.mode = "Run"
        /\ get_input(bus, id, "UP")[1][1] \in DOMAIN bus.ports

\* C27: commit leaves every node's write block as it is; a node's write
\* block goes away only in a handler in which a read returned a value from
\* one of that node's outbound edges.
C27_OnlyReadsReleaseBlocks ==
    [][/\ (Cur.ph = "commit" /\ at' # at) => bus'.write_blocks = bus.write_blocks
       /\ \A node \in DOMAIN bus.write_blocks \ DOMAIN bus'.write_blocks :
             \E k \in 1..Len(bus'.log) :
                 /\ bus'.log[k].hit
                 /\ bus'.log[k].peer = node
                 /\ bus'.log[k].edge \in OutEdges(bus, node)]_vars

\* a commit has published a value whose writer is blocked, after an earlier
\* read had released another block
C27_Witness ==
    /\ AtBoundary
    /\ cycles >= 2
    /\ bus.hits # <<>>
    /\ \E node \in DOMAIN bus.write_blocks :
          /\ OutEdges(bus, node) \cap DOMAIN bus.ports # {}
          /\ bus.hits[Len(bus.hits)].peer # node

\* C28: a commit with no pending writes leaves the committed slots, the
\* pending writes and the write blocks as they are, so a second commit right
\* after a commit changes nothing more.
C28_CommitIdempotent ==
    /\ bus.writes = EmptyMap =>
          /\ IoBus_commit(bus).ports = bus.ports
          /\ IoBus_commit(bus).writes = bus.writes
          /\ IoBus_commit(bus).write_blocks = bus.write_blocks
    /\ IoBus_commit(IoBus_commit(bus)).ports = IoBus_commit(bus).ports
    /\ IoBus_commit(IoBus_commit(bus)).writes = IoBus_commit(bus).writes
    /\ IoBus_commit(IoBus_commit(bus)).write_blocks = IoBus_commit(bus).write_blocks

\* a cycle is about to commit with nothing pending while a value is
\* committed and its writer blocked
C28_Witness ==
    /\ Cur.ph = "commit"
    /\ cycles >= 1
    /\ bus.writes = EmptyMap
    /\ DOMAIN bus.ports # {}
    /\ DOMAIN bus.write_blocks # {}

\* C29: an execution node with an empty program stays in mode Idle with
\* pc = 0 through all steps and syncs, and never reads from or writes to the
\* bus: no read is made in its name, none of its outbound edges ever holds a
\* value, and it never holds a write block.
C29_EmptyProgramStaysIdle ==
    \A id \in ExecNodes :
        nodes[id].n.program = <<>> =>
            /\ nodes[id].n.mode = "Idle"
            /\ nodes[id].n.pc = 0
            /\ nodes[id].n.acc = 0
            /\ \A k \in 1..Len(cyclog) : cyclog[k].reader # id
            /\ \A k \in 1..Len(bus.hits) :
                  bus.hits[k].reader # id /\ bus.hits[k].peer # id
            /\ OutEdges(bus, id) \cap (DOMAIN bus.ports \cup DOMAIN bus.writes) = {}
            /\ ~is_blocked(bus, id)

\* a node without a program has been stepped and synced for three cycles
\* while a value waits on its UP edge
C29_Witness ==
    \E id \in ExecNodes :
        /\ nodes[id].n.program = <<>>
        /\ cycles >= 3
        /\ get_input(bus, id, "UP") # None
        /\ get_input(bus, id, "UP")[1][1] \in DOMAIN bus.ports

\* C30: is_connected(from, to, port) is true exactly when a connection from
\* from to to in direction port has been created, by a connect_half or as
\* either half of a connect_full.
C30_IsConnectedIffCreated ==
    \A from \in DOMAIN bus.nodes : \A to \in DOMAIN bus.nodes : \A port \in Ports :
        is_connected(bus, from, to, port) =
            (/\ get_output(bus, from, port) # None
             /\ get_output(bus, from, port)[1][2] = to
             /\ get_input(bus, to, opposite_port(port)) # None
             /\ get_input(bus, to, opposite_port(port))[1][2] = from)

\* both halves of a connect_full are reported as connected
C30_Witness ==
    /\ is_connected(bus, 0, 1, "RIGHT")
    /\ is_connected(bus, 1, 0, "LEFT")
    /\ get_output(bus, INPUT_0, "DOWN") # None
    /\ ~is_connected(bus, INPUT_0, 0, "DOWN")

\* node id is at a MOV whose destination is a port with an outbound edge
WritesConnected(id) ==
    /\ IsSome(fetch(nodes[id].n))
    /\ fetch(nodes[id].n)[1].op = "Mov"
    /\ \/ fetch(nodes[id].n)[1].dst = "ANY"
       \/ /\ fetch(nodes[id].n)[1].dst \in Ports
          /\ get_output(bus, id, fetch(nodes[id].n)[1].dst) # None

\* C31: an execution node in mode Write stays as it is, and its step neither
\* reads nor writes, until a peer has read the value; the node's sync of the
\* cycle in which the value was read sets mode Run and advances pc once.
C31_WriterWaitsForReader ==
    [][\A id \in ExecNodes :
          (nodes[id].n.mode = "Wrte" /\ WritesConnected(id)) =>
              \/ /\ nodes'[id] = nodes[id]
                 /\ (Cur.ph = "step" /\ Cur.id = id /\ at' # at) =>
                       /\ bus'.ports = bus.ports
                       /\ bus'.writes = bus.writes
                       /\ bus'.write_blocks = bus.write_blocks
                       /\ bus'.log = <<>>
                       /\ bus'.movs = <<>>
                 /\ (Cur.ph = "sync" /\ Cur.id = id /\ at' # at) =>
                       is_blocked(bus, id)
              \/ /\ Cur.ph = "sync"
                 /\ Cur.id = id
                 /\ ~is_blocked(bus, id)
                 /\ \E k \in 1..Len(cyclog) : cyclog[k].hit /\ cyclog[k].peer = id
                 /\ nodes'[id].n =
                       [nodes[id].n EXCEPT
                          !.mode = "Run",
                          !.pc = (nodes[id].n.pc + 1) % Len(nodes[id].n.program)]]_vars

\* a value that waited two cycles or more was read in this cycle, and its
\* writer's sync has returned it to mode Run
C31_Witness ==
    /\ Cur.ph = "commit"
    /\ \E k \in 1..Len(cyclog) :
          /\ cyclog[k].hit
          /\ cyclog[k].peer \in ExecNodes
          /\ cyclog[k].at - cyclog[k].written >= 3
          /\ nodes[cyclog[k].peer].n.mode = "Run"

\* no committed value waits on the input edge of node id at port
NothingAt(id, port) ==
    \/ get_input(bus, id, port) = None
    \/ get_input(bus, id, port)[1][1] \notin DOMAIN bus.ports

\* node id is at an instruction whose source is a port, or ANY, that has
\* nothing to give
SourceMisses(id) ==
    /\ IsSome(fetch(nodes[id].n))
    /\ fetch(nodes[id].n)[1].op \in {"Mov", "Add", "Sub", "Jro"}
    /\ fetch(nodes[id].n)[1].src.k = "REG"
    /\ \/ /\ fetch(nodes[id].n)[1].src.r \in Ports
          /\ NothingAt(id, fetch(nodes[id].n)[1].src.r)
       \/ /\ fetch(nodes[id].n)[1].src.r = "ANY"
          /\ \A port \in Ports : NothingAt(id, port)

\* C32: a step whose source read finds nothing leaves the node in mode Read
\* with pc, ACC, BAK and the fabric as they were; a node in mode Read attempts
\* the read of the same instruction again at each step and changes only when
\* the read succeeds.
C32_FailedReadBlocks ==
    [][\A id \in ExecNodes :
          /\ (Cur.ph = "step" /\ Cur.id = id /\ at' # at
                /\ nodes[id].n.mode # "Wrte" /\ SourceMisses(id)) =>
                /\ nodes'[id].n = [nodes[id].n EXCEPT !.mode = "Read"]
                /\ bus'.ports = bus.ports
                /\ bus'.writes = bus.writes
                /\ bus'.write_blocks = bus.write_blocks
                /\ bus'.log # <<>>
                /\ \A k \in 1..Len(bus'.log) :
                      bus'.log[k].reader = id /\ ~bus'.log[k].hit
          /\ (nodes[id].n.mode = "Read" /\ nodes'[id] # nodes[id]) =>
                /\ Cur.ph = "step"
                /\ Cur.id = id
                /\ ~SourceMisses(id)
                /\ \E k \in 1..Len(bus'.log) :
                      bus'.log[k].reader = id /\ bus'.log[k].hit]_vars

\* a node that has never read a value is in mode Read at its first
\* instruction after two cycles or more, its read of this cycle having failed
C32_Witness ==
    /\ Cur.ph = "commit"
    /\ cycles >= 2
    /\ \E id \in ExecNodes :
          /\ nodes[id].n.mode = "Read"
          /\ nodes[id].n.pc = 0
          /\ \A k \in 1..Len(bus.hits) : bus.hits[k].reader # id
          /\ \E k \in 1..Len(cyclog) : cyclog[k].reader = id /\ ~cyclog[k].hit

\* node id is at a MOV to LAST with no port remembered
MovesToUnsetLast(id) ==
    /\ IsSome(fetch(nodes[id].n))
    /\ fetch(nodes[id].n)[1].op = "Mov"
    /\ fetch(nodes[id].n)[1].dst = "LAST"
    /\ nodes[id].n.last = None

\* C33: a MOV to LAST while LAST is unset creates no pending write and no
\* write block, and the node's sync of the same cycle returns it to mode Run
\* with pc advanced by one.
C33_MovToUnsetLastDrops ==
    [][\A id \in ExecNodes :
          MovesToUnsetLast(id) =>
             /\ (Cur.ph = "step" /\ Cur.id = id /\ at' # at
                   /\ nodes[id].n.mode # "Wrte" /\ ~SourceMisses(id)) =>
                   /\ bus'.writes = bus.writes
                   /\ bus'.write_blocks = bus.write_blocks
                   /\ id \notin DOMAIN bus'.write_blocks
                   /\ nodes'[id].n.pc = nodes[id].n.pc
                   /\ nodes'[id].n.acc = nodes[id].n.acc
                   /\ nodes'[id].n.mode = "Wrte"
             /\ (Cur.ph = "sync" /\ Cur.id = id /\ at' # at
                   /\ nodes[id].n.mode = "Wrte") =>
                   /\ nodes'[id].n.mode = "Run"
                   /\ nodes'[id].n.pc =
                         (nodes[id].n.pc + 1) % Len(nodes[id].n.program)]_vars

\* at the end of the cycle in which it moved ACC to the unset LAST, the node
\* runs and stands at the instruction after the MOV, with nothing pending
C33_Witness ==
    /\ Cur.ph = "commit"
    /\ bus.writes = EmptyMap
    /\ \E id \in ExecNodes :
          /\ nodes[id].n.program = Prog("last_write")
          /\ nodes[id].n.pc = 2
          /\ nodes[id].n.mode = "Run"
          /\ nodes[id].n.last = None
          /\ id \notin DOMAIN bus.write_blocks

\* C34: within a Puzzle cycle the handlers run in the phases test input
\* step, grid node step, test output step, grid node sync, test input sync,
\* commit, in this order; a test output node steps after the grid nodes of
\* its cycle.
C34_PhasesInStatedOrder ==
    [][LET Rank(e) ==
               CASE e.ph = "step" /\ e.id >= INPUT_0 -> 1
                 [] e.ph = "step" -> 2
                 [] e.ph = "tstep" -> 3
                 [] e.ph = "tsync" -> 3
                 [] e.ph = "sync" /\ e.id < INPUT_0 -> 4
                 [] e.ph = "sync" -> 5
                 [] e.ph = "stall" -> 5
                 [] OTHER -> 6
       IN (driver = "puzzle" /\ at' # at /\ at' # 1) =>
              Rank(Schedule[at]) <= Rank(Schedule[at'])]_vars

\* the test output node below node 9 has taken the 7 that node 9 offered on
\* every port, and node 5, which steps later in the cycle, found nothing
C34_Witness ==
    /\ cfg = "contend"
    /\ Cur.ph = "commit"
    /\ \E k \in 1..Len(cyclog) :
          /\ cyclog[k].hit
          /\ cyclog[k].reader = OUTPUT_0 + 1
          /\ cyclog[k].peer = 9
          /\ cyclog[k].val = 7
          /\ \E m \in (k + 1)..Len(cyclog) :
                /\ cyclog[m].reader = 5
                /\ cyclog[m].port = "DOWN"
                /\ ~cyclog[m].hit
    /\ nodes[5].n.acc = 0
    /\ tests[1].results = <<<<7, 7>>>>

\* the reads of the current cycle that grid nodes made on an edge that held a
\* committed value when the cycle began
GridAttempts ==
    {k \in 1..Len(cyclog) :
        /\ cyclog[k].reader \in DOMAIN nodes
        /\ cyclog[k].reader < NUM_NODES
        /\ cyclog[k].edge \in DOMAIN ports0}

MovesOffGrid(id) ==
    /\ IsSome(fetch(nodes[id].n))
    /\ fetch(nodes[id].n)[1].op = "Mov"
    /\ fetch(nodes[id].n)[1].dst \in Ports
    /\ get_output(bus, id, fetch(nodes[id].n)[1].dst) = None

\* C36: a MOV to a direction without outbound edge creates no pending write
\* and no write block, and the node's sync of the same cycle returns it to
\* mode Run with pc advanced by one.
C36_MovOffGridDrops ==
    [][\A id \in ExecNodes :
          MovesOffGrid(id) =>
             /\ (Cur.ph = "step" /\ Cur.id = id /\ at' # at
                   /\ nodes[id].n.mode # "Wrte" /\ ~SourceMisses(id)) =>
                   /\ bus'.writes = bus.writes
                   /\ bus'.write_blocks = bus.write_blocks
                   /\ id \notin DOMAIN bus'.write_blocks
                   /\ nodes'[id].n = [nodes[id].n EXCEPT !.mode = "Wrte"]
             /\ (Cur.ph = "sync" /\ Cur.id = id /\ at' # at
                   /\ nodes[id].n.mode = "Wrte") =>
                   nodes'[id].n =
                       [nodes[id].n EXCEPT
                          !.mode = "Run",
                          !.pc = (nodes[id].n.pc + 1) % Len(nodes[id].n.program)]]_vars

\* at the end of the cycle in which it moved 5 to LEFT, where it has no
\* edge, the node runs and stands at the next instruction, nothing pending
C36_Witness ==
    /\ Cur.ph = "commit"
    /\ bus.writes = EmptyMap
    /\ \E id \in ExecNodes :
          /\ nodes[id].n.program = Prog("no_edge")
          /\ get_output(bus, id, "LEFT") = None
          /\ nodes[id].n.pc = 1
          /\ nodes[id].n.mode = "Run"
          /\ id \notin DOMAIN bus.write_blocks

\* C37: an execution node has at most one unread write outstanding: while a
\* committed value of the node waits on an edge, no action gives the node a
\* pending write, and the value and the cycle it was written in stay as they
\* are on that edge until a read removes it.
C37_OneOutstandingWrite ==
    [][\A id \in ExecNodes : \A e \in OutEdges(bus, id) \cap DOMAIN bus.ports :
          /\ OutEdges(bus, id) \cap DOMAIN bus.writes = {}
          /\ OutEdges(bus, id) \cap DOMAIN bus'.writes = {}
          /\ nodes[id].n.mode = "Wrte"
          /\ e \in DOMAIN bus'.ports =>
                /\ bus'.ports[e] = bus.ports[e]
                /\ bus'.ptag[e] = bus.ptag[e]
          /\ e \notin DOMAIN bus'.ports =>
                \E k \in 1..Len(bus'.log) :
                    bus'.log[k].hit /\ bus'.log[k].peer = id]_vars

\* a value that an execution node wrote has waited, committed and unread,
\* through two commits or more, its writer still in mode Wrte
C37_Witness ==
    \E id \in ExecNodes : \E e \in OutEdges(bus, id) \cap DOMAIN bus.ports :
        /\ bus.now - bus.ptag[e] >= 3
        /\ nodes[id].n.mode = "Wrte"
        /\ id \in DOMAIN bus.write_blocks

\* the values that the pairs recorded by test output node o hold as actual
Actuals(o) == [k \in 1..Len(tests[o].results) |-> tests[o].results[k][2]]

\* C38: in a puzzle whose only path leads from a test input node through
\* execution nodes that each run MOV UP DOWN to a test output node, the
\* values the output node has read, and the actual values it has recorded,
\* are at all times a prefix of the input stream.
C38_ChainDeliversPrefix ==
    cfg \in {"chain", "chain_stalled"} =>
        \A t \in InputNodes : \A o \in DOMAIN tests :
            /\ Len(OutputReads(o)) <= Len(StreamData(t))
            /\ OutputReads(o) = SubSeq(StreamData(t), 1, Len(OutputReads(o)))
            /\ Len(Actuals(o)) <= Len(StreamData(t))
            /\ Actuals(o) = SubSeq(StreamData(t), 1, Len(Actuals(o)))

\* the output node at the end of the chain has recorded both values of the
\* input stream, in the order of the stream
C38_Witness ==
    /\ cfg = "chain"
    /\ \E t \in InputNodes : \E o \in DOMAIN tests :
          /\ Len(StreamData(t)) = 2
          /\ StreamData(t)[1] # StreamData(t)[2]
          /\ Actuals(o) = StreamData(t)
          /\ nodes[t].n.test_data = <<>>

\* C39: the index that StackMemoryNode.sync removes is always an index of
\* the stack: a reserved read_index is below the length of the stack in
\* every state, and no sync has failed on a removal out of range.
C39_ReservedIndexInRange ==
    \A s \in StackNodes :
        /\ ~nodes[s].n.panicked
        /\ IsSome(nodes[s].n.read_index) =>
              nodes[s].n.read_index[1] < Len(nodes[s].n.stack)

\* a stack node's sync has removed the entry it had reserved: the node has
\* pushed more values than it holds, a peer has read from it, and no index
\* is reserved
C39_Witness ==
    \E s \in StackNodes :
        /\ nodes[s].n.read_index = None
        /\ Handed(s) # {}
        /\ Cardinality(Pushed(s)) > Len(nodes[s].n.stack)
        /\ Len(nodes[s].n.stack) > 0

\* C40: a test output node that is no longer Testing stays as it is: no
\* action changes its pairs or its state, and a value that waits on its UP
\* edge when it steps is read, which frees the edge and the writer, and is
\* not recorded.
C40_OutputStateIsFinal ==
    [][\A o \in DOMAIN tests :
          TestOutputNode_state(tests[o]) # "Testing" =>
             /\ tests'[o] = tests[o]
             /\ TestOutputNode_state(tests'[o]) = TestOutputNode_state(tests[o])
             /\ (Cur.ph = "tstep" /\ Cur.id = o /\ at' # at
                   /\ ~NothingAt(o + OUTPUT_0, "UP")) =>
                   /\ NothingAt(o + OUTPUT_0, "UP")'
                   /\ get_input(bus, o + OUTPUT_0, "UP")[1][2] \notin DOMAIN bus'.write_blocks
                   /\ \E k \in 1..Len(bus'.log) :
                         /\ bus'.log[k].hit
                         /\ bus'.log[k].reader = o + OUTPUT_0]_vars

\* an output node that has Failed has since read a value that it did not
\* record, and the writer of that value is running again
C40_Witness ==
    \E o \in DOMAIN tests :
        /\ TestOutputNode_state(tests[o]) = "Failed"
        /\ Len(OutputReads(o)) > Len(tests[o].results)
        /\ get_input(bus, o + OUTPUT_0, "UP")[1][2] \notin DOMAIN bus.write_blocks
        /\ nodes[get_input(bus, o + OUTPUT_0, "UP")[1][2]].n.mode # "Wrte"

====
